---------------------------- MODULE Spec2Model ----------------------------
(***************************************************************************)
(* A model of docx-parser's rendering engine (src/src/lib.rs,              *)
(* src/src/utils.rs): style resolution, run coalescing, list numbering,    *)
(* table layout and the document walk of MarkdownDocument::to_markdown.    *)
(*                                                                         *)
(* Text is a sequence of Unicode code points (a Rust String); the codes    *)
(* used in literals are  10 \n  32 space  35 #  42 *  45 -  46 .  47 /     *)
(* 60 <  62 >  95 _  124 |  126 ~  and the letters' ASCII codes.           *)
(* Option<T> is a sequence of length 0 (None) or 1 (Some(x)).              *)
(* A HashMap is a function on the set of its keys.                         *)
(***************************************************************************)
EXTENDS Integers, Sequences, FiniteSets, TLC

VARIABLES
    doc,         \* the MarkdownDocument being rendered
    pc,          \* position of the caller: idle / loop / export / panicked
    index,       \* to_markdown: number of content items already rendered
    numberings,  \* the HashMap<isize, usize> of list counters of a pass
    markdown,    \* to_markdown: the text accumulated so far
    outputs,     \* the texts returned by the completed to_markdown calls
    ret,         \* MarkdownParagraph::to_markdown called directly: its result
    source,      \* from_paragraph: the docx paragraph handed in
    built,       \* from_paragraph: the MarkdownParagraph returned
    overflow_checks,  \* the build: TRUE when integer overflow panics (debug),
                      \* FALSE when it wraps (release)
    exports,     \* to_markdown(true): the image writes of each pass
    call         \* a function of the library called directly: its arguments
                 \* and, once it has returned, its result

vars == <<doc, pc, index, numberings, markdown, outputs, ret, source, built,
          overflow_checks, exports, call>>

---------------------------------------------------------------------------
(* Option, HashMap and String helpers                                      *)

None == << >>

Some(x) == <<x>>

is_some(o) == o # None

unwrap(o) == o[1]

or_else(o, other) == IF is_some(o) THEN o ELSE other

HashMap_new == << >>

contains_key(map, k) == k \in DOMAIN map

insert(map, k, v) == (k :> v) @@ map

\* str::len(): the length in bytes of the UTF-8 encoding
RECURSIVE str_len(_)
str_len(s) ==
    IF s = << >> THEN 0
    ELSE (IF Head(s) < 128 THEN 1 ELSE IF Head(s) < 2048 THEN 2 ELSE 3)
         + str_len(Tail(s))

RECURSIVE repeat(_, _)
repeat(s, n) == IF n <= 0 THEN << >> ELSE s \o repeat(s, n - 1)

\* Display of an unsigned integer
RECURSIVE usize_to_string(_)
usize_to_string(n) ==
    IF n < 10 THEN <<48 + n>>
    ELSE usize_to_string(n \div 10) \o <<48 + (n % 10)>>

\* char::is_whitespace on the code points below 256
White_Space == {9, 10, 11, 12, 13, 32, 133, 160}

\* str::trim().is_empty()
trim_is_empty(s) == \A i \in 1..Len(s) : s[i] \in White_Space

---------------------------------------------------------------------------
(* BlockStyle, ParagraphStyle                                              *)

BlockStyle_new ==
    [bold |-> FALSE, italics |-> FALSE, underline |-> FALSE, strike |-> FALSE,
     size |-> None]

\* the mutation: a flag stays set when either side has it
BlockStyle_combine_with_either(self, other) ==
    [bold      |-> self.bold \/ other.bold,
     italics   |-> self.italics \/ other.italics,
     underline |-> self.underline \/ other.underline,
     strike    |-> self.strike \/ other.strike,
     size      |-> IF is_some(other.size) THEN other.size ELSE self.size]

BlockStyle_combine_with(self, other) ==
    [bold      |-> other.bold,
     italics   |-> other.italics,
     underline |-> other.underline,
     strike    |-> other.strike,
     size      |-> IF is_some(other.size) THEN other.size ELSE self.size]

ParagraphStyle_new ==
    [style_id |-> None, outline_lvl |-> None, numbering |-> None,
     page_break_before |-> None, style |-> None]

\* the mutation: the named style's fields are preferred over the paragraph's
ParagraphStyle_combine_with_other_first(self, other) ==
    [style_id          |-> or_else(other.style_id, self.style_id),
     outline_lvl       |-> or_else(other.outline_lvl, self.outline_lvl),
     page_break_before |-> or_else(other.page_break_before, self.page_break_before),
     numbering         |-> or_else(other.numbering, self.numbering),
     style             |-> or_else(other.style, self.style)]

ParagraphStyle_combine_with(self, other) ==
    [style_id          |-> or_else(self.style_id, other.style_id),
     outline_lvl       |-> or_else(self.outline_lvl, other.outline_lvl),
     page_break_before |-> or_else(self.page_break_before, other.page_break_before),
     numbering         |-> IF self.numbering = None THEN other.numbering
                           ELSE self.numbering,
     style             |-> IF is_some(self.style)
                           THEN IF is_some(other.style)
                                THEN Some(BlockStyle_combine_with(unwrap(self.style),
                                                                  unwrap(other.style)))
                                ELSE self.style
                           ELSE other.style]

---------------------------------------------------------------------------
(* TextBlock                                                               *)

TextBlock_new(text, style, text_type) ==
    [text_type |-> text_type, style |-> style, text |-> text]

\* the style whose flags decide the markup of a block
TextBlock_style(self, paragraph_style) ==
    LET own == IF is_some(self.style) THEN unwrap(self.style) ELSE BlockStyle_new
    IN  IF is_some(paragraph_style.style)
        THEN BlockStyle_combine_with(own, unwrap(paragraph_style.style))
        ELSE own

\* the mutation: strike is applied first, then underline, italic, bold
TextBlock_to_markdown_strike_first(self, paragraph_style) ==
    LET style == TextBlock_style(self, paragraph_style)
        m0 == self.text
        m1 == IF style.strike    THEN <<126, 126>> \o m0 \o <<126, 126>> ELSE m0
        m2 == IF style.underline THEN <<95, 95>> \o m1 \o <<95, 95>>     ELSE m1
        m3 == IF style.italics   THEN <<42>> \o m2 \o <<42>>             ELSE m2
        m4 == IF style.bold      THEN <<42, 42>> \o m3 \o <<42, 42>>     ELSE m3
    IN  m4

TextBlock_to_markdown(self, paragraph_style) ==
    LET style == TextBlock_style(self, paragraph_style)
        m0 == self.text
        m1 == IF style.bold      THEN <<42, 42>> \o m0 \o <<42, 42>>     ELSE m0
        m2 == IF style.italics   THEN <<42>> \o m1 \o <<42>>             ELSE m1
        m3 == IF style.underline THEN <<95, 95>> \o m2 \o <<95, 95>>     ELSE m2
        m4 == IF style.strike    THEN <<126, 126>> \o m3 \o <<126, 126>> ELSE m3
    IN  m4

---------------------------------------------------------------------------
(* MarkdownParagraph::to_markdown                                          *)

\* the local `style`: the paragraph's own style combined with the named one
effective_style(self, styles) ==
    LET style == IF is_some(self.style) THEN unwrap(self.style)
                 ELSE ParagraphStyle_new
    IN  IF is_some(style.style_id) /\ contains_key(styles, unwrap(style.style_id))
        THEN ParagraphStyle_combine_with(style, styles[unwrap(style.style_id)])
        ELSE style

\* the mutation: one more '#' for every level, without the cap
heading_level_uncapped(outline_lvl) == repeat(<<35>>, outline_lvl + 1) \o <<32>>

heading_level(outline_lvl) ==
    CASE outline_lvl = 0 -> <<35, 32>>
      [] outline_lvl = 1 -> <<35, 35, 32>>
      [] outline_lvl = 2 -> <<35, 35, 35, 32>>
      [] outline_lvl = 3 -> <<35, 35, 35, 35, 32>>
      [] outline_lvl = 4 -> <<35, 35, 35, 35, 35, 32>>
      [] OTHER           -> <<35, 35, 35, 35, 35, 35, 32>>

\* docx_rust's NumberFormat::from_str on the tokens the renderer tells apart;
\* an unknown token is an Err
NumberFormat_from_str(entry) ==
    CASE entry = "decimal"     -> Some("Decimal")
      [] entry = "upperRoman"  -> Some("UpperRoman")
      [] entry = "lowerRoman"  -> Some("LowerRoman")
      [] entry = "upperLetter" -> Some("UpperLetter")
      [] entry = "lowerLetter" -> Some("LowerLetter")
      [] entry = "bullet"      -> Some("Bullet")
      [] entry = "ordinal"     -> Some("Ordinal")
      [] OTHER                 -> None

number_format(definition) ==
    IF is_some(definition.format)
    THEN LET parsed == NumberFormat_from_str(unwrap(definition.format))
         IN  IF is_some(parsed) THEN unwrap(parsed) ELSE "Decimal"
    ELSE "Decimal"

\* ((*count) as u8 + base) as char: the sum in u8, which overflows above 255
\* (a panic with overflow checks, the wrapped value without)
letter_symbol(count, base) ==
    [overflow |-> (count % 256) + base > 255,
     text     |-> <<((count % 256) + base) % 256, 46>>]

\* the marker for the current counter value, before the counter is advanced
numbering_symbol(format, count, definition) ==
    CASE format = "UpperRoman"  -> letter_symbol(count, 73)
      [] format = "LowerRoman"  -> letter_symbol(count, 105)
      [] format = "UpperLetter" -> letter_symbol(count, 65)
      [] format = "LowerLetter" -> letter_symbol(count, 97)
      [] format = "Bullet"      ->
            [overflow |-> FALSE,
             text |-> IF is_some(definition.level_text)
                         /\ trim_is_empty(unwrap(definition.level_text))
                      THEN <<32>> ELSE <<45>>]
      [] OTHER -> [overflow |-> FALSE, text |-> usize_to_string(count + 1) \o <<46>>]

RECURSIVE blocks_to_markdown(_, _)
blocks_to_markdown(blocks, style) ==
    IF blocks = << >> THEN << >>
    ELSE TextBlock_to_markdown(Head(blocks), style)
         \o blocks_to_markdown(Tail(blocks), style)

has_list_id(style) ==
    is_some(style.numbering) /\ is_some(unwrap(style.numbering).id)

list_id(style) == unwrap(unwrap(style.numbering).id)

heading_prefix(style) ==
    IF is_some(style.outline_lvl) THEN heading_level(unwrap(style.outline_lvl))
    ELSE << >>

\* the mutation: levels 0 and up are indented, by one level more
indent_prefix_from_zero(style) ==
    IF /\ is_some(style.numbering)
       /\ is_some(unwrap(style.numbering).indent_level)
    THEN repeat(<<32, 32, 32, 32>>, unwrap(unwrap(style.numbering).indent_level) + 1)
    ELSE << >>

indent_prefix(style) ==
    IF /\ is_some(style.numbering)
       /\ is_some(unwrap(style.numbering).indent_level)
       /\ unwrap(unwrap(style.numbering).indent_level) > 0
    THEN repeat(<<32, 32, 32, 32>>, unwrap(unwrap(style.numbering).indent_level))
    ELSE << >>

\* a rendering result that carries the counters and a panic along
Rendered(text, counters, panicked) ==
    [text |-> text, numberings |-> counters, panicked |-> panicked]

\* the mutation: a new counter starts one too high
or_insert_above(counters, id, v) ==
    IF contains_key(counters, id) THEN counters ELSE insert(counters, id, v + 1)

\* numberings.entry(id).or_insert(0)
or_insert(counters, id, v) ==
    IF contains_key(counters, id) THEN counters ELSE insert(counters, id, v)

\* the mutation: the counter is not advanced
advance_without_increment(id, entry, symbol) ==
    IF symbol.overflow /\ overflow_checks THEN Rendered(<< >>, entry, TRUE)
    ELSE Rendered(symbol.text \o <<32>>, entry, FALSE)

\* *count += 1; markdown += &format!("{numbering_symbol} ")
advance(id, entry, symbol) ==
    IF symbol.overflow /\ overflow_checks THEN Rendered(<< >>, entry, TRUE)
    ELSE Rendered(symbol.text \o <<32>>, [entry EXCEPT ![id] = @ + 1], FALSE)

marker_for(id, definition, entry) ==
    advance(id, entry,
            numbering_symbol(number_format(definition), entry[id], definition))

\* lines 296-315: the marker of a paragraph with a list id; doc.numberings[&id]
\* panics when the id has no definition
numbering_marker(style, counters, doc_numberings) ==
    IF ~has_list_id(style) THEN Rendered(<< >>, counters, FALSE)
    ELSE IF ~contains_key(doc_numberings, list_id(style))
    THEN Rendered(<< >>, counters, TRUE)
    ELSE marker_for(list_id(style), doc_numberings[list_id(style)],
                    or_insert(counters, list_id(style), 0))

\* the result: the text, the counters as the call leaves them, whether the call
\* panicked, and the effective style it rendered with
finish_paragraph(self, style, prefix, marker) ==
    [markdown   |-> IF marker.panicked THEN << >>
                    ELSE prefix \o marker.text \o blocks_to_markdown(self.blocks, style),
     numberings |-> marker.numberings,
     panicked   |-> marker.panicked,
     style      |-> style]

paragraph_with_style(self, style, counters, doc_numberings) ==
    finish_paragraph(self, style, heading_prefix(style) \o indent_prefix(style),
                     numbering_marker(style, counters, doc_numberings))

MarkdownParagraph_to_markdown(self, styles, counters, doc_numberings) ==
    paragraph_with_style(self, effective_style(self, styles), counters, doc_numberings)

---------------------------------------------------------------------------
(* utils.rs: table layout                                                  *)

RECURSIVE max_lengths_row(_, _, _)
\* the inner loop over the cells of one row, from cell i (1-based) on
max_lengths_row(max_lengths, row, i) ==
    IF i > Len(row) THEN max_lengths
    ELSE LET grown == IF i - 1 = Len(max_lengths) THEN Append(max_lengths, 0)
                      ELSE max_lengths
             upd == IF str_len(row[i]) > grown[i]
                    THEN [grown EXCEPT ![i] = str_len(row[i])] ELSE grown
         IN  max_lengths_row(upd, row, i + 1)

RECURSIVE max_lengths_rows(_, _)
max_lengths_rows(max_lengths, rows) ==
    IF rows = << >> THEN max_lengths
    ELSE max_lengths_rows(max_lengths_row(max_lengths, Head(rows)[2], 1), Tail(rows))

\* the mutation: only the first row is measured
max_lengths_first_row_only(table_with_simple_cells, min_width) ==
    IF table_with_simple_cells = << >> THEN << >>
    ELSE max_lengths_row(repeat(<<min_width>>, Len(table_with_simple_cells[1][2])),
                         table_with_simple_cells[1][2], 1)

\* the mutation: only the last row is measured
max_lengths_last_row_only(table_with_simple_cells, min_width) ==
    IF table_with_simple_cells = << >> THEN << >>
    ELSE max_lengths_row(repeat(<<min_width>>, Len(table_with_simple_cells[1][2])),
                         table_with_simple_cells[Len(table_with_simple_cells)][2], 1)

max_lengths_per_column(table_with_simple_cells, min_width) ==
    IF table_with_simple_cells = << >> THEN << >>
    ELSE max_lengths_rows(repeat(<<min_width>>, Len(table_with_simple_cells[1][2])),
                          table_with_simple_cells)

\* the mutation: nothing is added to the text
pad_left_unpadded(s, width) == s

pad_left(s, width) ==
    IF width <= str_len(s) THEN s
    ELSE s \o repeat(<<32>>, width - str_len(s))

RECURSIVE table_row_cells(_, _, _)
table_row_cells(column_lengths, row, j) ==
    IF j > Len(column_lengths) THEN << >>
    ELSE <<124, 32>> \o pad_left(IF j <= Len(row) THEN row[j] ELSE << >>,
                                 column_lengths[j])
         \o <<32>> \o table_row_cells(column_lengths, row, j + 1)

table_row_to_markdown(column_lengths, row) ==
    table_row_cells(column_lengths, row, 1) \o <<124, 10>>

---------------------------------------------------------------------------
(* MarkdownDocument::to_markdown: one content item                         *)

\* one step of the fold over the paragraphs of a cell, joined by "<br/>"
append_paragraph(acc, p, is_last) ==
    Rendered(acc.text \o p.markdown
             \o (IF is_last THEN << >> ELSE <<60, 98, 114, 47, 62>>),
             p.numberings, p.panicked)

RECURSIVE cell_to_markdown(_, _, _, _, _)
cell_to_markdown(acc, cell, i, styles, doc_numberings) ==
    IF i > Len(cell) \/ acc.panicked THEN acc
    ELSE cell_to_markdown(
             append_paragraph(acc,
                 MarkdownParagraph_to_markdown(cell[i], styles, acc.numberings,
                                               doc_numberings),
                 i = Len(cell)),
             cell, i + 1, styles, doc_numberings)

\* one step of the map over the cells of a row: text is the cells' texts
append_cell(acc, c) == Rendered(Append(acc.text, c.text), c.numberings, c.panicked)

RECURSIVE row_to_simple_cells(_, _, _, _, _)
row_to_simple_cells(acc, row, j, styles, doc_numberings) ==
    IF j > Len(row) \/ acc.panicked THEN acc
    ELSE row_to_simple_cells(
             append_cell(acc,
                 cell_to_markdown(Rendered(<< >>, acc.numberings, FALSE), row[j], 1,
                                  styles, doc_numberings)),
             row, j + 1, styles, doc_numberings)

\* one step of the map over the rows: text is the rows <<is_header, cells>>
append_row(acc, is_header, r) ==
    Rendered(Append(acc.text, <<is_header, r.text>>), r.numberings, r.panicked)

\* table_with_simple_cells
RECURSIVE table_to_simple_cells(_, _, _, _, _)
table_to_simple_cells(acc, table, i, styles, doc_numberings) ==
    IF i > Len(table) \/ acc.panicked THEN acc
    ELSE table_to_simple_cells(
             append_row(acc, table[i][1],
                 row_to_simple_cells(Rendered(<< >>, acc.numberings, FALSE),
                                     table[i][2], 1, styles, doc_numberings)),
             table, i + 1, styles, doc_numberings)

\* the min_width of the call max_lengths_per_column(&table_with_simple_cells)
to_markdown_min_width == 0

divider_cells(column_lengths) ==
    [j \in 1..Len(column_lengths) |-> repeat(<<45>>, column_lengths[j])]

blank_cells(column_lengths) == [j \in 1..Len(column_lengths) |-> << >>]

\* the mutation: a first row that is no header is emitted without the
\* synthetic header and the divider
table_fold_step_no_synthetic(i, is_header, markdown_row, divider, blank_row) ==
    IF i = 0 /\ is_header THEN markdown_row \o divider ELSE markdown_row

\* what the fold appends for row i (0-based)
table_fold_step(i, is_header, markdown_row, divider, blank_row) ==
    IF i = 0
    THEN IF is_header THEN markdown_row \o divider
         ELSE blank_row \o divider \o markdown_row
    ELSE markdown_row

RECURSIVE table_fold(_, _, _, _)
table_fold(table_with_simple_cells, i, column_lengths, divider) ==
    IF i >= Len(table_with_simple_cells) THEN << >>
    ELSE table_fold_step(i, table_with_simple_cells[i + 1][1],
                         table_row_to_markdown(column_lengths,
                                               table_with_simple_cells[i + 1][2]),
                         divider,
                         table_row_to_markdown(column_lengths,
                                               blank_cells(column_lengths)))
         \o table_fold(table_with_simple_cells, i + 1, column_lengths, divider)

table_to_markdown(table_with_simple_cells) ==
    LET column_lengths == max_lengths_per_column(table_with_simple_cells,
                                                 to_markdown_min_width)
        divider == table_row_to_markdown(column_lengths, divider_cells(column_lengths))
    IN  table_fold(table_with_simple_cells, 0, column_lengths, divider)

paragraph_item(p) == Rendered(p.markdown \o <<10>>, p.numberings, p.panicked)

table_item(t) ==
    IF t.panicked THEN t ELSE Rendered(table_to_markdown(t.text), t.numberings, FALSE)

\* the match arm of one content item
content_to_markdown(content, styles, counters, doc_numberings) ==
    IF content.kind = "Paragraph"
    THEN paragraph_item(MarkdownParagraph_to_markdown(content.paragraph, styles,
                                                      counters, doc_numberings))
    ELSE table_item(table_to_simple_cells(Rendered(<< >>, counters, FALSE),
                                          content.table, 1, styles, doc_numberings))

\* the mutation: a missing title still gives a heading line
title_heading_always(title) ==
    <<35, 32>> \o (IF is_some(title) THEN unwrap(title) ELSE << >>) \o <<10, 10>>

title_heading(title) ==
    IF is_some(title) THEN <<35, 32>> \o unwrap(title) \o <<10, 10>> ELSE << >>

\* the mutation: the counters of the previous pass are kept
to_markdown_numberings_kept == numberings

\* let mut numberings: HashMap<isize, usize> = HashMap::new()
to_markdown_numberings == HashMap_new

---------------------------------------------------------------------------
(* MarkdownParagraph::from_paragraph                                       *)

\* a docx CharacterProperty: each flag says whether the element is present
CharacterProperty(size, bold, underline, italics, emphasis, strike, dstrike) ==
    [size |-> size, bold |-> bold, underline |-> underline, italics |-> italics,
     emphasis |-> emphasis, strike |-> strike, dstrike |-> dstrike]

\* one step of the r_pr fold, and the whole conversion of a run's property
apply_character_property(block_style, cp) ==
    [size      |-> IF is_some(cp.size) THEN cp.size ELSE block_style.size,
     bold      |-> block_style.bold \/ cp.bold,
     underline |-> block_style.underline \/ cp.underline,
     italics   |-> block_style.italics \/ cp.italics \/ cp.emphasis,
     strike    |-> block_style.strike \/ cp.strike \/ cp.dstrike]

run_block_style(property) ==
    IF is_some(property)
    THEN Some(apply_character_property(BlockStyle_new, unwrap(property)))
    ELSE None

RECURSIVE fold_r_pr(_, _)
fold_r_pr(block_style, r_pr) ==
    IF r_pr = << >> THEN block_style
    ELSE fold_r_pr(apply_character_property(block_style, Head(r_pr)), Tail(r_pr))

\* impl From<&ParagraphProperty> for ParagraphStyle
ParagraphStyle_from(pp) ==
    [style_id          |-> pp.style_id,
     outline_lvl       |-> pp.outline_lvl,
     page_break_before |-> IF is_some(pp.page_break_before)
                           THEN unwrap(pp.page_break_before) ELSE None,
     numbering         |-> IF is_some(pp.numbering)
                           THEN Some([id |-> unwrap(pp.numbering).id,
                                      indent_level |-> unwrap(pp.numbering).level,
                                      format |-> None, level_text |-> None])
                           ELSE None,
     style             |-> IF Len(pp.r_pr) > 0
                           THEN Some(fold_r_pr(BlockStyle_new, pp.r_pr)) ELSE None]

\* Relationships::get_target on the document relationships
get_target(docx, id) ==
    IF is_some(docx.document_rels) /\ contains_key(unwrap(docx.document_rels), id)
    THEN Some(unwrap(docx.document_rels)[id]) ELSE None

\* RunContent::Drawing: the Image block pushed, if any
drawing_block(drawing, docx) ==
    IF is_some(drawing.inline) /\ is_some(unwrap(drawing.inline).graphic)
    THEN LET inline == unwrap(drawing.inline)
             target == get_target(docx, unwrap(inline.graphic))
             descr  == IF is_some(inline.descr) THEN unwrap(inline.descr) ELSE << >>
         IN  IF is_some(target)
             THEN Some(TextBlock_new(<<33, 91>> \o descr \o <<93, 40, 46, 47>>
                                       \o unwrap(target) \o <<41>>,
                                     None, "Image"))
             ELSE None
    ELSE None

\* ParagraphContent::Link: the Link block pushed, if any
link_block(link, docx) ==
    LET descr  == IF link.content = << >> THEN None ELSE Some(Head(link.content))
        target == IF is_some(link.anchor) THEN Some(<<35>> \o unwrap(link.anchor))
                  ELSE IF is_some(link.id) THEN get_target(docx, unwrap(link.id))
                  ELSE None
    IN  IF is_some(descr) /\ unwrap(descr).kind = "Text" /\ is_some(target)
        THEN Some(TextBlock_new(<<91>> \o unwrap(descr).text \o <<93, 40>>
                                  \o unwrap(target) \o <<41>>,
                                None, "Link"))
        ELSE None

\* ParagraphContent::BookmarkStart: the BookmarkLink block pushed, if any
bookmark_block(bookmark_start) ==
    IF is_some(bookmark_start.name)
    THEN Some(TextBlock_new(<<60, 97, 32, 110, 97, 109, 101, 61, 34>>
                              \o unwrap(bookmark_start.name)
                              \o <<34, 62, 60, 47, 97, 62>>,
                            None, "BookmarkLink"))
    ELSE None

push_some(blocks, block) == IF is_some(block) THEN Append(blocks, unwrap(block))
                            ELSE blocks

\* the mutation: the previous block's kind is not looked at
could_extend_any_kind(prev_block, block_style) == prev_block.style = block_style

\* the mutation: a link or bookmark block is extended like a text block
could_extend_links(prev_block, block_style) ==
    /\ prev_block.style = block_style
    /\ prev_block.text_type \in {"Text", "Link", "BookmarkLink"}

\* is_same_style(&prev_block.style) && prev_block.text_type == TextType::Text
could_extend(prev_block, block_style) ==
    prev_block.style = block_style /\ prev_block.text_type = "Text"

\* the mutation: a text fragment always starts a block of its own
push_text_never_extend(blocks, text, block_style) ==
    Append(blocks, TextBlock_new(text, block_style, "Text"))

\* RunContent::Text
push_text(blocks, text, block_style) ==
    IF blocks # << >> /\ could_extend(blocks[Len(blocks)], block_style)
    THEN [blocks EXCEPT ![Len(blocks)].text = @ \o text]
    ELSE Append(blocks, TextBlock_new(text, block_style, "Text"))

RECURSIVE run_contents(_, _, _, _)
run_contents(blocks, content, block_style, docx) ==
    IF content = << >> THEN blocks
    ELSE LET rc == Head(content)
             next == CASE rc.kind = "Text" -> push_text(blocks, rc.text, block_style)
                       [] rc.kind = "Drawing" ->
                             push_some(blocks, drawing_block(rc, docx))
                       [] OTHER -> blocks
         IN  run_contents(next, Tail(content), block_style, docx)

RECURSIVE paragraph_contents(_, _, _)
paragraph_contents(blocks, content, docx) ==
    IF content = << >> THEN blocks
    ELSE LET pcn == Head(content)
             next == CASE pcn.kind = "Run" ->
                             run_contents(blocks, pcn.content,
                                          run_block_style(pcn.property), docx)
                       [] pcn.kind = "Link" -> push_some(blocks, link_block(pcn, docx))
                       [] pcn.kind = "BookmarkStart" ->
                             push_some(blocks, bookmark_block(pcn))
                       [] OTHER -> blocks
         IN  paragraph_contents(next, Tail(content), docx)

from_paragraph(paragraph, docx) ==
    [style  |-> IF is_some(paragraph.property)
                THEN Some(ParagraphStyle_from(unwrap(paragraph.property))) ELSE None,
     blocks |-> paragraph_contents(<< >>, paragraph.content, docx)]

---------------------------------------------------------------------------
(* Values the inputs are drawn from                                        *)

\* at most this many paragraphs of one list are rendered by direct calls
MaxCalls == 3

Text_Hi == <<72, 105>>          \* "Hi"

Text_a == <<97>>                \* "a"

Style(b, i, u, s, size) ==
    [bold |-> b, italics |-> i, underline |-> u, strike |-> s, size |-> size]

InlineStyles ==
    {None,
     Some(BlockStyle_new),
     Some(Style(TRUE, FALSE, FALSE, FALSE, None)),
     Some(Style(FALSE, TRUE, FALSE, FALSE, None)),
     Some(Style(FALSE, FALSE, TRUE, FALSE, None)),
     Some(Style(FALSE, FALSE, FALSE, TRUE, None)),
     Some(Style(TRUE, TRUE, TRUE, TRUE, Some(24)))}

Numbering(id, level) ==
    [id |-> id, indent_level |-> level, format |-> None, level_text |-> None]

Definition(id, format, level_text) ==
    [id |-> Some(id), indent_level |-> None, format |-> format,
     level_text |-> level_text]

ParagraphItem(p) == [kind |-> "Paragraph", paragraph |-> p]

TableItem(t) == [kind |-> "Table", table |-> t]

Document(title, content, styles, defs) ==
    [title |-> title, content |-> content, styles |-> styles,
     numberings |-> defs, images |-> HashMap_new]

\* the direct formatting of a paragraph
OwnStyles ==
    {None} \cup
    { Some([style_id |-> sid, outline_lvl |-> ol, numbering |-> nm,
            page_break_before |-> pb, style |-> st]) :
        sid \in {None, Some("Heading1"), Some("Unknown")},
        ol \in {None, Some(1)},
        nm \in {None, Some(Numbering(Some(1), Some(1)))},
        pb \in {None, Some(TRUE)},
        st \in InlineStyles }

\* the named style "Heading1" of the registry
NamedStyles ==
    { [style_id |-> None, outline_lvl |-> f[1], numbering |-> f[2],
       page_break_before |-> f[3], style |-> st] :
        f \in {<<None, None, None>>,
               <<Some(0), Some(Numbering(Some(2), None)), Some(FALSE)>>},
        st \in InlineStyles }

ParagraphDefinitions ==
    (1 :> Definition(1, None, None)) @@
    (2 :> Definition(2, Some("bullet"), Some(<<45>>)))

\* at most this many items in the content of a source paragraph
MaxRuns == 3

Text_Hello == <<72, 101, 108, 108, 111, 32>>   \* "Hello "

Text_World == <<87, 111, 114, 108, 100>>       \* "World"

Run(property, content) == [kind |-> "Run", property |-> property, content |-> content]

Text(text) == [kind |-> "Text", text |-> text]

Drawing(inline) == [kind |-> "Drawing", inline |-> inline]

Inline(graphic, descr) == [graphic |-> graphic, descr |-> descr]

Other == [kind |-> "Other"]

Link(anchor, id, content) ==
    [kind |-> "Link", anchor |-> anchor, id |-> id, content |-> content]

BookmarkStart(name) == [kind |-> "BookmarkStart", name |-> name]

Plain_rPr == CharacterProperty(None, FALSE, FALSE, FALSE, FALSE, FALSE, FALSE)

Bold_rPr == CharacterProperty(None, TRUE, FALSE, FALSE, FALSE, FALSE, FALSE)

Emphasis_rPr == CharacterProperty(Some(24), FALSE, FALSE, FALSE, TRUE, FALSE, FALSE)

\* the ParagraphContent values a source paragraph is made of
ParagraphContents ==
    {Run(None, <<Text(Text_Hello)>>),
     Run(None, <<Text(Text_World)>>),
     Run(Some(Bold_rPr), <<Text(Text_Hello)>>),
     Run(Some(Bold_rPr), <<Text(Text_World)>>),
     Run(Some(Plain_rPr), <<Text(Text_World)>>),
     Run(None, <<Text(Text_Hello), Other, Text(Text_World)>>),
     \* an inline picture whose relationship resolves
     Run(None, <<Drawing(Some(Inline(Some("rId1"), Some(<<112>>))))>>),
     \* a floating (anchored) picture: no inline part
     Run(Some(Bold_rPr), <<Drawing(None)>>),
     \* an inline picture whose relationship is not in document_rels
     Run(None, <<Drawing(Some(Inline(Some("rId9"), None)))>>),
     Link(None, Some("rId2"), <<Text(<<120>>)>>),
     BookmarkStart(Some(<<98>>)),
     Other}

ParagraphProperties ==
    {None,
     Some([style_id |-> Some("Heading1"), outline_lvl |-> Some(0),
           page_break_before |-> Some(Some(TRUE)),
           numbering |-> Some([id |-> Some(1), level |-> Some(0)]),
           r_pr |-> <<Bold_rPr, Emphasis_rPr>>])}

\* the parsed package: rId1 is an image part, rId2 an external link
Docx ==
    [document_rels |-> Some(("rId1" :> <<109, 47, 49>>) @@ ("rId2" :> <<117>>))]

RECURSIVE SeqsUpTo(_, _)
SeqsUpTo(S, n) ==
    IF n = 0 THEN {<< >>}
    ELSE LET shorter == SeqsUpTo(S, n - 1)
         IN  shorter \cup {Append(q, x) : q \in shorter, x \in S}

\* at most this many items in the content of a document
MaxItems == 3

\* at most this many rows in a generated table
MaxRows == 2

\* at most this many to_markdown calls on one document
MaxPasses == 2

Text_Doc == <<68, 111, 99>>     \* "Doc"

OnlyStyle(outline_lvl, numbering) ==
    Some([style_id |-> None, outline_lvl |-> outline_lvl, numbering |-> numbering,
          page_break_before |-> None, style |-> None])

Paragraph(style, text, block_style) ==
    [style |-> style, blocks |-> <<TextBlock_new(text, block_style, "Text")>>]

\* a paragraph without any style holding one unstyled text
Plain(text) == Paragraph(None, text, None)

\* outline level 0, one bold block "Hi"
P_heading ==
    Paragraph(OnlyStyle(Some(0), None), Text_Hi,
              Some(Style(TRUE, FALSE, FALSE, FALSE, None)))

P_list1 == Paragraph(OnlyStyle(None, Some(Numbering(Some(1), None))), Text_a, None)

P_list1_nested ==
    Paragraph(OnlyStyle(None, Some(Numbering(Some(1), Some(1)))), Text_a, None)

P_list2 == Paragraph(OnlyStyle(None, Some(Numbering(Some(2), Some(0)))), Text_a, None)

\* a header-less table with list paragraphs in its cells, two in one cell
T_lists == <<  <<FALSE, << <<P_list1>>, <<Plain(Text_a), P_list2>> >> >>  >>

T_empty == << >>

Contents ==
    {ParagraphItem(P_heading), ParagraphItem(P_list1), ParagraphItem(P_list1_nested),
     ParagraphItem(P_list2), ParagraphItem(Plain(Text_a)),
     TableItem(T_lists), TableItem(T_empty)}

\* list 1 falls back to decimal, list 2 is lettered
Definitions ==
    (1 :> Definition(1, None, None)) @@
    (2 :> Definition(2, Some("upperLetter"), Some(<<37, 49, 46>>)))

\* (format, level_text) of a list definition
Formats ==
    {<<None, None>>,
     <<Some("decimal"), Some(<<37, 49, 46>>)>>,
     <<Some("ordinal"), None>>,
     <<Some("customFormat"), None>>,
     <<Some("bullet"), None>>,
     <<Some("bullet"), Some(<<45>>)>>,
     <<Some("bullet"), Some(<<32, 183>>)>>,
     <<Some("bullet"), Some(<<32>>)>>,
     <<Some("bullet"), Some(<< >>)>>,
     <<Some("upperLetter"), None>>,
     <<Some("lowerLetter"), None>>,
     <<Some("upperRoman"), None>>,
     <<Some("lowerRoman"), None>>}

ListContents ==
    {ParagraphItem(P_list1), ParagraphItem(P_list1_nested), ParagraphItem(P_list2),
     ParagraphItem(Plain(Text_a)), TableItem(T_lists)}

Cell(text) == <<Plain(text)>>

\* the rows tables are made of: ragged, with an empty cell, with a cell of
\* two paragraphs
Rows ==
    {<< >>,
     <<Cell(<<65>>)>>,
     <<Cell(<<65>>), Cell(<<66, 66>>)>>,
     <<Cell(<<88>>), Cell(<<89, 89, 89, 89>>)>>,
     <<Cell(<<45>>), Cell(<< >>), Cell(<<65>>)>>,
     <<  <<Plain(<<65>>), Plain(<<88>>)>>  >>}

Tables == SeqsUpTo({<<h, r>> : h \in BOOLEAN, r \in Rows}, MaxRows)

\* nothing has been rendered or built yet
Unused ==
    /\ pc = "idle" /\ index = 0 /\ numberings = HashMap_new
    /\ markdown = << >> /\ outputs = << >> /\ ret = None
    /\ source = None /\ built = None
    /\ overflow_checks \in BOOLEAN /\ exports = << >>

Quiet == Unused /\ call = None

---------------------------------------------------------------------------
(* MarkdownDocument::to_markdown, called up to MaxPasses times on one      *)
(* document                                                                *)

Init ==
    /\ \E title \in {None, Some(Text_Doc)}, content \in SeqsUpTo(Contents, MaxItems) :
          doc = Document(title, content, HashMap_new, Definitions)
    /\ Quiet

InitList ==
    /\ \E f \in Formats, content \in SeqsUpTo(ListContents, MaxItems) :
          doc = Document(None, content, HashMap_new,
                         (1 :> Definition(1, f[1], f[2])) @@
                         (2 :> Definition(2, Some("bullet"), Some(<<45>>))))
    /\ Quiet

InitTable ==
    /\ \E table \in Tables :
          doc = Document(None, <<TableItem(table)>>, HashMap_new, Definitions)
    /\ Quiet

\* to_markdown(false), lines 653-660: the title and the fresh counters
ToMarkdownBegin ==
    /\ pc = "idle"
    /\ Len(outputs) < MaxPasses
    /\ markdown' = title_heading(doc.title)
    /\ numberings' = to_markdown_numberings
    /\ index' = 0
    /\ pc' = "loop"
    /\ UNCHANGED <<doc, outputs, ret, source, built,
                 overflow_checks, exports, call>>

\* the mutation: the separator is written after the last item too
ContentRendered_always_separated(r) ==
    /\ numberings' = r.numberings
    /\ IF r.panicked
       THEN pc' = "panicked" /\ UNCHANGED <<markdown, index>>
       ELSE /\ markdown' = markdown \o r.text \o <<10>>
            /\ index' = index + 1
            /\ pc' = "loop"

\* the effect of one rendered content item r on the pass
ContentRendered(r) ==
    /\ numberings' = r.numberings
    /\ IF r.panicked
       THEN pc' = "panicked" /\ UNCHANGED <<markdown, index>>
       ELSE /\ markdown' = markdown \o r.text
                            \o (IF index # Len(doc.content) - 1 THEN <<10>> ELSE << >>)
            /\ index' = index + 1
            /\ pc' = "loop"

\* lines 662-734: one iteration of the loop over self.content
ToMarkdownContent ==
    /\ pc = "loop"
    /\ index < Len(doc.content)
    /\ ContentRendered(content_to_markdown(doc.content[index + 1], doc.styles,
                                           numberings, doc.numberings))
    /\ UNCHANGED <<doc, outputs, ret, source, built,
                 overflow_checks, exports, call>>

\* to_markdown(false), lines 736-745: the loop is over, nothing is exported,
\* the text is returned
ToMarkdownReturn ==
    /\ pc = "loop"
    /\ index = Len(doc.content)
    /\ outputs' = Append(outputs, markdown)
    /\ pc' = "idle"
    /\ UNCHANGED <<doc, index, numberings, markdown, ret, source, built,
                 overflow_checks, exports, call>>

Next == ToMarkdownBegin \/ ToMarkdownContent \/ ToMarkdownReturn

Spec == Init /\ [][Next]_vars

SpecList == InitList /\ [][Next]_vars

SpecTable == InitTable /\ [][Next]_vars

---------------------------------------------------------------------------
(* MarkdownParagraph::to_markdown called on the paragraphs of a document,  *)
(* with one counter table kept by the caller                               *)

InitParagraph ==
    /\ \E own \in OwnStyles, named \in NamedStyles, st \in InlineStyles :
          doc = Document(None,
                         <<ParagraphItem([style |-> own,
                              blocks |-> <<TextBlock_new(Text_Hi, st, "Text")>>])>>,
                         "Heading1" :> named, ParagraphDefinitions)
    /\ Quiet

ParagraphReturned(paragraph, r) ==
    /\ ret' = Some([paragraph |-> paragraph, style |-> r.style,
                    markdown |-> r.markdown, panicked |-> r.panicked])
    /\ numberings' = r.numberings
    /\ pc' = IF r.panicked THEN "panicked" ELSE "idle"

ParagraphToMarkdown ==
    /\ pc = "idle"
    /\ \A k \in DOMAIN numberings : numberings[k] < MaxCalls
    /\ \E i \in 1..Len(doc.content) :
          /\ doc.content[i].kind = "Paragraph"
          /\ ParagraphReturned(doc.content[i].paragraph,
                 MarkdownParagraph_to_markdown(doc.content[i].paragraph, doc.styles,
                                               numberings, doc.numberings))
    /\ UNCHANGED <<doc, index, markdown, outputs, source, built,
                 overflow_checks, exports, call>>

NextParagraph == ParagraphToMarkdown

SpecParagraph == InitParagraph /\ [][NextParagraph]_vars

---------------------------------------------------------------------------
(* Style cascade: C2, C3, C4                                               *)

\* sub occurs in s as a contiguous stretch
Contains(s, sub) ==
    \E i \in 0..(Len(s) - Len(sub)) : SubSeq(s, i + 1, i + Len(sub)) = sub

\* the part of a rendered paragraph after its last space: the blocks' markup
\* when no block text holds a space (heading prefix and marker end with one)
RECURSIVE AfterLastSpace(_)
AfterLastSpace(s) ==
    IF s = << >> THEN << >>
    ELSE LET rest == AfterLastSpace(Tail(s))
         IN  IF 32 \in {Tail(s)[i] : i \in 1..Len(Tail(s))} THEN rest
             ELSE IF Head(s) = 32 THEN Tail(s) ELSE s

\* text wrapped in the markers of the flags that are on
Emphasis(text, style) ==
    LET b == IF style.bold THEN <<42, 42>> ELSE << >>
        i == IF style.italics THEN <<42>> ELSE << >>
        u == IF style.underline THEN <<95, 95>> ELSE << >>
        k == IF style.strike THEN <<126, 126>> ELSE << >>
    IN  k \o u \o i \o b \o text \o b \o i \o u \o k

\* the paragraph's own style, its named style (if registered) and its block
OwnOf(r) == IF is_some(r.paragraph.style) THEN unwrap(r.paragraph.style)
            ELSE ParagraphStyle_new

Registered(r) ==
    is_some(OwnOf(r).style_id) /\ contains_key(doc.styles, unwrap(OwnOf(r).style_id))

NamedOf(r) == doc.styles[unwrap(OwnOf(r).style_id)]

\* C2 (as claimed): a paragraph with direct inline bold=true that references a
\* registered named style with inline bold=false is rendered bold: its text
\* appears wrapped in ** in the result of MarkdownParagraph::to_markdown.
C2_DirectBoldWins ==
    is_some(ret) =>
        LET r == unwrap(ret)
        IN  ( /\ ~r.panicked
              /\ is_some(OwnOf(r).style) /\ unwrap(OwnOf(r).style).bold
              /\ Registered(r)
              /\ is_some(NamedOf(r).style) /\ ~unwrap(NamedOf(r).style).bold )
            => Contains(r.markdown,
                        <<42, 42>> \o r.paragraph.blocks[1].text \o <<42, 42>>)

\* C3 (as claimed): when a text block has its own inline style and the
\* paragraph's effective style has an inline style too, the block is rendered
\* with the block's own four flags.
C3_RunFlagsWin ==
    is_some(ret) =>
        LET r == unwrap(ret)
            block == r.paragraph.blocks[1]
        IN  (~r.panicked /\ is_some(block.style) /\ is_some(r.style.style))
            => AfterLastSpace(r.markdown) = Emphasis(block.text, unwrap(block.style))

\* C4: resolving a paragraph against its registered named style keeps every
\* field the paragraph sets (style_id, outline level, numbering,
\* page_break_before) and takes each unset one from the named style; with no
\* direct inline style and a named style with italics the text is rendered
\* italic; with an unregistered (or no) style_id the paragraph's own style is
\* the effective style.
C4_FillUnsetFromNamedStyle ==
    is_some(ret) =>
        LET r == unwrap(ret)
            own == OwnOf(r)
            text == r.paragraph.blocks[1].text
        IN  IF Registered(r)
            THEN LET named == NamedOf(r)
                 IN  /\ r.style.style_id = own.style_id
                     /\ r.style.outline_lvl =
                          IF is_some(own.outline_lvl) THEN own.outline_lvl
                          ELSE named.outline_lvl
                     /\ r.style.numbering =
                          IF is_some(own.numbering) THEN own.numbering
                          ELSE named.numbering
                     /\ r.style.page_break_before =
                          IF is_some(own.page_break_before) THEN own.page_break_before
                          ELSE named.page_break_before
                     /\ ( /\ ~is_some(own.style) /\ is_some(named.style)
                          /\ unwrap(named.style).italics /\ ~r.panicked )
                        => Contains(r.markdown,
                              <<42>> \o (IF unwrap(named.style).bold
                                         THEN <<42, 42>> \o text \o <<42, 42>>
                                         ELSE text) \o <<42>>)
            ELSE r.style = own

\* C4 witness: outline level kept from the paragraph, numbering and
\* page_break_before filled from "Heading1", text italic: "## - *Hi*"
C4_Witness ==
    /\ is_some(ret)
    /\ Registered(unwrap(ret))
    /\ OwnOf(unwrap(ret)).outline_lvl = Some(1)
    /\ OwnOf(unwrap(ret)).numbering = None
    /\ OwnOf(unwrap(ret)).style = None
    /\ unwrap(ret).style.page_break_before = Some(FALSE)
    /\ unwrap(ret).markdown = <<35, 35, 32, 45, 32, 42, 72, 105, 42>>

---------------------------------------------------------------------------
(* MarkdownParagraph::from_paragraph applied to a source paragraph         *)

InitCoalesce ==
    /\ \E property \in ParagraphProperties,
          content \in SeqsUpTo(ParagraphContents, MaxRuns) :
          source = Some([paragraph |-> [property |-> property, content |-> content],
                         docx |-> Docx])
    /\ doc = Document(None, << >>, HashMap_new, HashMap_new)
    /\ pc = "idle" /\ index = 0 /\ numberings = HashMap_new
    /\ markdown = << >> /\ outputs = << >> /\ ret = None /\ built = None
    /\ overflow_checks \in BOOLEAN /\ exports = << >> /\ call = None

FromParagraph ==
    /\ pc = "idle"
    /\ is_some(source)
    /\ built' = Some(from_paragraph(unwrap(source).paragraph, unwrap(source).docx))
    /\ UNCHANGED <<doc, pc, index, numberings, markdown, outputs, ret, source,
                 overflow_checks, exports, call>>

NextCoalesce == FromParagraph

SpecCoalesce == InitCoalesce /\ [][NextCoalesce]_vars

---------------------------------------------------------------------------
(* Run coalescing: C5, C6                                                  *)

\* the fragments a paragraph's content yields, in order: one Text block per
\* text of a run, one block per picture, link or bookmark that yields one
RECURSIVE RunFragments(_, _, _)
RunFragments(content, style, docx) ==
    IF content = << >> THEN << >>
    ELSE LET rc == Head(content)
             f == CASE rc.kind = "Text" -> <<TextBlock_new(rc.text, style, "Text")>>
                    [] rc.kind = "Drawing" -> drawing_block(rc, docx)
                    [] OTHER -> << >>
         IN  f \o RunFragments(Tail(content), style, docx)

RECURSIVE Fragments(_, _)
Fragments(content, docx) ==
    IF content = << >> THEN << >>
    ELSE LET c == Head(content)
             f == CASE c.kind = "Run" ->
                         RunFragments(c.content, run_block_style(c.property), docx)
                    [] c.kind = "Link" -> link_block(c, docx)
                    [] c.kind = "BookmarkStart" -> bookmark_block(c)
                    [] OTHER -> << >>
         IN  f \o Fragments(Tail(content), docx)

\* every maximal stretch of Text fragments of equal style joined into one
RECURSIVE MergeStretches(_)
MergeStretches(frags) ==
    IF frags = << >> THEN << >>
    ELSE LET f == Head(frags)
             r == MergeStretches(Tail(frags))
         IN  IF /\ r # << >> /\ f.text_type = "Text" /\ Head(r).text_type = "Text"
                /\ f.style = Head(r).style
             THEN <<[f EXCEPT !.text = @ \o Head(r).text]>> \o Tail(r)
             ELSE <<f>> \o r

\* C5: after from_paragraph no two neighbouring blocks are both Text with
\* equal inline style, and every maximal stretch of consecutive text
\* fragments of equal style is one Text block holding their concatenation in
\* the original order.
C5_TextStretchesCoalesced ==
    is_some(built) =>
        LET b == unwrap(built).blocks
        IN  /\ \A i \in 1..(Len(b) - 1) :
                  ~( /\ b[i].text_type = "Text" /\ b[i + 1].text_type = "Text"
                     /\ b[i].style = b[i + 1].style )
            /\ b = MergeStretches(Fragments(unwrap(source).paragraph.content,
                                            unwrap(source).docx))

\* C5 witness: "Hello " then "World" in two runs without property give the
\* single block "Hello World"
C5_Witness ==
    /\ is_some(built)
    /\ unwrap(source).paragraph.content =
          <<Run(None, <<Text(Text_Hello)>>), Run(None, <<Text(Text_World)>>)>>
    /\ unwrap(built).blocks =
          <<TextBlock_new(Text_Hello \o Text_World, None, "Text")>>

\* a run of texts only, a run of pictures only
IsTextRun(c) ==
    /\ c.kind = "Run"
    /\ \E i \in 1..Len(c.content) : c.content[i].kind = "Text"
    /\ \A i \in 1..Len(c.content) : c.content[i].kind \in {"Text", "Other"}

IsDrawingRun(c) ==
    /\ c.kind = "Run" /\ c.content # << >>
    /\ \A i \in 1..Len(c.content) : c.content[i].kind = "Drawing"

RECURSIVE RunText(_)
RunText(content) ==
    IF content = << >> THEN << >>
    ELSE (IF Head(content).kind = "Text" THEN Head(content).text ELSE << >>)
         \o RunText(Tail(content))

EndsWith(s, t) == Len(t) <= Len(s) /\ SubSeq(s, Len(s) - Len(t) + 1, Len(s)) = t

StartsWith(s, t) == Len(t) <= Len(s) /\ SubSeq(s, 1, Len(t)) = t

\* the blocks hold: a Text block ending with the first run's text, then an
\* Image block of the middle run, then a Text block starting with the
\* third run's text
SeparatedByImage(b, first, middle, third, docx) ==
    \E m \in 1..(Len(b) - 2) :
        /\ b[m].text_type = "Text"
        /\ b[m].style = run_block_style(first.property)
        /\ EndsWith(b[m].text, RunText(first.content))
        /\ b[m + 1].text_type = "Image"
        /\ \E i \in 1..Len(middle.content) :
              Some(b[m + 1]) = drawing_block(middle.content[i], docx)
        /\ b[m + 2].text_type = "Text"
        /\ b[m + 2].style = run_block_style(third.property)
        /\ StartsWith(b[m + 2].text, RunText(third.content))

\* C6 (as claimed): two text runs of identical inline style separated by a
\* run holding a drawing are never merged: the blocks hold the first text,
\* then an Image block, then the second text.
C6_AnyDrawingSeparates ==
    is_some(built) =>
        LET c == unwrap(source).paragraph.content
        IN  \A i \in 1..(Len(c) - 2) :
              ( /\ IsTextRun(c[i]) /\ IsDrawingRun(c[i + 1]) /\ IsTextRun(c[i + 2])
                /\ run_block_style(c[i].property) = run_block_style(c[i + 2].property) )
              => SeparatedByImage(unwrap(built).blocks, c[i], c[i + 1], c[i + 2],
                                  unwrap(source).docx)

\* C6 (amended): the same, for a middle run whose drawing yields an image:
\* an inline drawing with a graphic whose relationship id has a target in
\* the document relationships.
C6_ResolvedDrawingSeparates ==
    is_some(built) =>
        LET c == unwrap(source).paragraph.content
            docx == unwrap(source).docx
        IN  \A i \in 1..(Len(c) - 2) :
              ( /\ IsTextRun(c[i]) /\ IsDrawingRun(c[i + 1]) /\ IsTextRun(c[i + 2])
                /\ run_block_style(c[i].property) = run_block_style(c[i + 2].property)
                /\ \E j \in 1..Len(c[i + 1].content) :
                      is_some(drawing_block(c[i + 1].content[j], docx)) )
              => SeparatedByImage(unwrap(built).blocks, c[i], c[i + 1], c[i + 2], docx)

\* C6 witness: "Hello ", a resolved picture, "World", all without property,
\* give three blocks
C6_Witness ==
    /\ is_some(built)
    /\ unwrap(source).paragraph.content =
          <<Run(None, <<Text(Text_Hello)>>),
            Run(None, <<Drawing(Some(Inline(Some("rId1"), Some(<<112>>))))>>),
            Run(None, <<Text(Text_World)>>)>>
    /\ unwrap(built).blocks =
          <<TextBlock_new(Text_Hello, None, "Text"),
            TextBlock_new(<<33, 91, 112, 93, 40, 46, 47, 109, 47, 49, 41>>, None, "Image"),
            TextBlock_new(Text_World, None, "Text")>>

---------------------------------------------------------------------------
(* The document walk: C1, C7, C10                                          *)

\* C1: every to_markdown call on the same unchanged document returns the
\* same text: the counters of one call are not visible in the next.
C1_SameTextEveryPass ==
    \A i \in 1..Len(outputs) : outputs[i] = outputs[1]

\* C1 witness: two completed passes over numbered paragraphs around a table
\* with numbered paragraphs in its cells
C1_Witness ==
    /\ Len(outputs) = 2
    /\ doc.content = <<ParagraphItem(P_list1), TableItem(T_lists), ParagraphItem(P_list2)>>
    /\ numberings = (1 :> 2) @@ (2 :> 2)

\* the paragraphs of a content item, and of the first n items, in document order
RECURSIVE Flatten(_)
Flatten(seqs) == IF seqs = << >> THEN << >> ELSE Head(seqs) \o Flatten(Tail(seqs))

ItemParagraphs(item) ==
    IF item.kind = "Paragraph" THEN <<item.paragraph>>
    ELSE Flatten([i \in 1..Len(item.table) |-> Flatten(item.table[i][2])])

ParagraphsBefore(n) == Flatten([i \in 1..(n - 1) |-> ItemParagraphs(doc.content[i])])

\* the number of paragraphs with list id L among pars
OfList(L, pars) ==
    Cardinality({i \in 1..Len(pars) :
                    /\ has_list_id(effective_style(pars[i], doc.styles))
                    /\ list_id(effective_style(pars[i], doc.styles)) = L})

Decimal(k) == IF k < 10 THEN <<48 + k>> ELSE <<48 + (k \div 10), 48 + (k % 10)>>

OnlySpaces(t) == \A i \in 1..Len(t) : t[i] = 32

\* the separator written after item n
Separator(n) == IF n = Len(doc.content) THEN << >> ELSE <<10>>

\* C7: in one pass the paragraphs of one list get "1. ", "2. ", "3. ", ... in
\* document order when the list's format is unset or unrecognised, "- " when
\* it is bullet with absent or non-blank level text, and a single space as
\* marker when it is bullet with blank level text.
C7_ListMarkers ==
    ( /\ pc = "loop" /\ index >= 1
      /\ doc.content[index].kind = "Paragraph"
      /\ has_list_id(effective_style(doc.content[index].paragraph, doc.styles)) )
    => LET p == doc.content[index].paragraph
           st == effective_style(p, doc.styles)
           def == doc.numberings[list_id(st)]
           k == OfList(list_id(st), ParagraphsBefore(index)) + 1
           rendered(marker) ==
               EndsWith(markdown,
                        heading_prefix(st) \o indent_prefix(st) \o marker \o <<32>>
                        \o blocks_to_markdown(p.blocks, st) \o <<10>>
                        \o Separator(index))
       IN  /\ ( \/ def.format = None
                \/ def.format = Some("customFormat") )
              => rendered(Decimal(k) \o <<46>>)
           /\ ( /\ def.format = Some("bullet")
                /\ \/ def.level_text = None
                   \/ ~OnlySpaces(unwrap(def.level_text)) )
              => rendered(<<45>>)
           /\ ( /\ def.format = Some("bullet")
                /\ is_some(def.level_text) /\ OnlySpaces(unwrap(def.level_text)) )
              => rendered(<<32>>)

\* C7 witness: three paragraphs of list 1, whose format token is not a
\* NumberFormat: "1. a", "2. a", "3. a"
C7_Witness ==
    /\ pc = "loop" /\ index = 3
    /\ doc.numberings[1].format = Some("customFormat")
    /\ doc.content = <<ParagraphItem(P_list1), ParagraphItem(P_list1),
                       ParagraphItem(P_list1)>>
    /\ markdown = <<49, 46, 32, 97, 10, 10, 50, 46, 32, 97, 10, 10, 51, 46, 32, 97, 10>>

\* "# Doc\n\n# **Hi**\n"
Text_DocHi == <<35, 32, 68, 111, 99, 10, 10, 35, 32, 42, 42, 72, 105, 42, 42, 10>>

\* C10: the title is rendered once, as "# title" and a blank line at the very
\* start; a document without title has no such line; title "Doc" and one
\* paragraph of outline level 0 with the bold block "Hi" give exactly
\* "# Doc\n\n# **Hi**\n".
C10_TitleHeading ==
    LET heading == IF is_some(doc.title)
                   THEN <<35, 32>> \o unwrap(doc.title) \o <<10, 10>> ELSE << >>
    IN  /\ (pc = "loop" /\ index = 0) => markdown = heading
        /\ \A i \in 1..Len(outputs) :
              /\ StartsWith(outputs[i], heading)
              /\ doc.content = << >> => outputs[i] = heading
              /\ doc.content = <<ParagraphItem(P_heading)>>
                 => outputs[i] = heading \o <<35, 32, 42, 42, 72, 105, 42, 42, 10>>
              /\ (doc.title = Some(Text_Doc) /\ doc.content = <<ParagraphItem(P_heading)>>)
                 => outputs[i] = Text_DocHi

C10_Witness ==
    /\ doc.title = Some(Text_Doc)
    /\ doc.content = <<ParagraphItem(P_heading)>>
    /\ outputs = <<Text_DocHi>>

---------------------------------------------------------------------------
(* Tables: C8, C9                                                          *)

\* the lines of a text, without their newlines
RECURSIVE Lines(_)
Lines(text) ==
    IF text = << >> THEN << >>
    ELSE IF 10 \notin {text[i] : i \in 1..Len(text)} THEN <<text>>
    ELSE LET n == CHOOSE i \in 1..Len(text) :
                     text[i] = 10 /\ \A j \in 1..(i - 1) : text[j] # 10
         IN  <<SubSeq(text, 1, n - 1)>> \o Lines(SubSeq(text, n + 1, Len(text)))

\* the table of a one-table document, and the texts of its cells
TheTable == doc.content[1].table

SimpleCells ==
    table_to_simple_cells(Rendered(<< >>, HashMap_new, FALSE), TheTable, 1,
                          doc.styles, doc.numberings).text

TableRendered ==
    /\ pc = "loop" /\ index = 1 /\ Len(doc.content) = 1
    /\ doc.content[1].kind = "Table" /\ Len(TheTable) >= 1 /\ doc.title = None

WithoutNewline(line) == SubSeq(line, 1, Len(line) - 1)

\* C8: a table with at least one row is rendered with exactly one divider
\* line, the second line; a first row that is no header is preceded by a
\* synthetic header of blank cells; all rows follow in their order, none
\* dropped, whatever their header flags.
C8_OneDividerSecondLine ==
    TableRendered =>
        LET lines == Lines(markdown)
            n == Len(TheTable)
            widths == max_lengths_per_column(SimpleCells, to_markdown_min_width)
            row(k) == WithoutNewline(table_row_to_markdown(widths, SimpleCells[k][2]))
            divider == WithoutNewline(
                           table_row_to_markdown(widths, divider_cells(widths)))
        IN  IF TheTable[1][1]
            THEN /\ Len(lines) = n + 1
                 /\ lines[1] = row(1)
                 /\ lines[2] = divider
                 /\ \A k \in 2..n : lines[k + 1] = row(k)
            ELSE /\ Len(lines) = n + 2
                 /\ Len(lines[1]) = Len(divider)
                 /\ \A i \in 1..Len(lines[1]) : lines[1][i] \in {124, 32}
                 /\ lines[2] = divider
                 /\ \A k \in 1..n : lines[k + 2] = row(k)

\* C8 witness: two rows, the first no header, the second flagged as header:
\* blank header, divider, both rows
C8_Witness ==
    /\ TableRendered
    /\ TheTable = << <<FALSE, <<Cell(<<65>>)>> >>,
                     <<TRUE, <<Cell(<<65>>), Cell(<<66, 66>>)>> >> >>
    /\ Len(Lines(markdown)) = 4

Max(S) == CHOOSE x \in S : \A y \in S : y <= x

\* the widest cell of column j over the rows that have a column j
ColumnWidth(j) ==
    Max({0} \cup {Len(SimpleCells[k][2][j]) :
                     k \in {r \in 1..Len(SimpleCells) : Len(SimpleCells[r][2]) >= j}})

Columns == Max({0} \cup {Len(SimpleCells[k][2]) : k \in 1..Len(SimpleCells)})

\* "| " cell padding " " for every column, then "|"
RECURSIVE PaddedCells(_, _)
PaddedCells(cells, j) ==
    IF j > Columns THEN <<124>>
    ELSE LET cell == IF j <= Len(cells) THEN cells[j] ELSE << >>
         IN  <<124, 32>> \o cell \o [i \in 1..(ColumnWidth(j) - Len(cell)) |-> 32]
             \o <<32>> \o PaddedCells(cells, j + 1)

\* the table A, BB (header) over X, YYYY
T_example ==
    << <<TRUE, <<Cell(<<65>>), Cell(<<66, 66>>)>> >>,
       <<FALSE, <<Cell(<<88>>), Cell(<<89, 89, 89, 89>>)>> >> >>

\* "| A | BB   |\n| - | ---- |\n| X | YYYY |\n"
Text_example ==
    <<124, 32, 65, 32, 124, 32, 66, 66, 32, 32, 32, 124, 10,
      124, 32, 45, 32, 124, 32, 45, 45, 45, 45, 32, 124, 10,
      124, 32, 88, 32, 124, 32, 89, 89, 89, 89, 32, 124, 10>>

---------------------------------------------------------------------------
(* Separation of the top-level items: C11                                  *)

\* a text that ends a line, or is empty
AtLineStart(text) == text = << >> \/ text[Len(text)] = 10

\* complete lines, the last of them not blank
CompleteLines(text) ==
    /\ text # << >>
    /\ text[Len(text)] = 10
    /\ Len(text) >= 2 /\ text[Len(text) - 1] # 10

NoRows(item) == item.kind = "Table" /\ item.table = << >>

\* the number of blank lines of a text
BlankLines(text) ==
    Cardinality({i \in 1..Len(text) : text[i] = 10 /\ (i = 1 \/ text[i - 1] = 10)})

\* C11: every step of the loop appends the text of one item, complete lines
\* that do not end in a blank line (nothing at all for a table with no
\* rows), followed by exactly one blank line when another item follows and
\* by nothing after the last item; when every item has text, the returned
\* text has one blank line per pair of consecutive items, none of them
\* adjacent, none at its start and none at its end.
C11_OneBlankLineBetweenItems ==
    [][ /\ (pc = "loop" /\ pc' = "loop" /\ index' = index + 1) =>
            LET n == Len(doc.content)
                item == doc.content[index']
                separator == IF index' < n THEN <<10>> ELSE << >>
                appended == SubSeq(markdown', Len(markdown) + 1, Len(markdown'))
                own == SubSeq(appended, 1, Len(appended) - Len(separator))
            IN  /\ markdown' = markdown \o own \o separator
                /\ AtLineStart(markdown)
                /\ IF NoRows(item) THEN own = << >> ELSE CompleteLines(own)
        /\ (pc = "loop" /\ pc' = "idle"
            /\ \A i \in 1..Len(doc.content) : ~NoRows(doc.content[i])) =>
            LET body == SubSeq(markdown, Len(title_heading(doc.title)) + 1,
                               Len(markdown))
                last == Len(outputs')
            IN  /\ outputs'[last] = markdown
                /\ BlankLines(body) = (IF doc.content = << >> THEN 0
                                        ELSE Len(doc.content) - 1)
                /\ ~StartsWith(body, <<10>>)
                /\ ~EndsWith(body, <<10, 10>>)
                /\ ~Contains(body, <<10, 10, 10>>)
      ]_vars

\* C11 witness: a paragraph, a table with no rows and a paragraph:
\* "a\n" "\n" "" "\n" "a\n"
C11_Witness ==
    /\ doc.title = None
    /\ doc.content = <<ParagraphItem(Plain(Text_a)), TableItem(T_empty),
                       ParagraphItem(Plain(Text_a))>>
    /\ outputs = <<<<97, 10, 10, 10, 97, 10>>>>

---------------------------------------------------------------------------
(* Heading prefix: C12                                                     *)

\* the outline levels drawn are 0..MaxOutlineLvl
MaxOutlineLvl == 6

OutlineLvls == {None} \cup {Some(l) : l \in 0..MaxOutlineLvl}

\* one paragraph with its own outline level (or none) and a style id that is
\* registered, unregistered or absent; the named style has its own level
InitHeading ==
    /\ \E own \in OutlineLvls, named \in {None, Some(0), Some(MaxOutlineLvl)},
          sid \in {None, Some("Heading1"), Some("Unknown")},
          nm \in {None, Some(Numbering(Some(1), Some(1)))},
          st \in {None, Some(Style(TRUE, FALSE, FALSE, FALSE, None))} :
          doc = Document(None,
                    <<ParagraphItem(
                        [style |-> Some([style_id |-> sid, outline_lvl |-> own,
                                         numbering |-> nm, page_break_before |-> None,
                                         style |-> None]),
                         blocks |-> <<TextBlock_new(Text_Hi, st, "Text")>>])>>,
                    "Heading1" :> [style_id |-> None, outline_lvl |-> named,
                                   numbering |-> None, page_break_before |-> None,
                                   style |-> None],
                    ParagraphDefinitions)
    /\ Quiet

SpecHeading == InitHeading /\ [][NextParagraph]_vars

Hashes(text) ==
    IF \A i \in 1..Len(text) : text[i] = 35 THEN Len(text)
    ELSE (CHOOSE i \in 1..Len(text) : text[i] # 35 /\ \A j \in 1..(i - 1) : text[j] = 35) - 1

\* C12: a paragraph whose effective style has outline level L starts with
\* L+1 '#' and a space for L in 0..4 and with six '#' and a space for every
\* L >= 5; a paragraph with no outline level starts with no '#'.
C12_HeadingPrefix ==
    (is_some(ret) /\ ~unwrap(ret).panicked) =>
        LET r == unwrap(ret)
            L == r.style.outline_lvl
            n == Hashes(r.markdown)
        IN  IF is_some(L)
            THEN /\ n = (IF unwrap(L) <= 4 THEN unwrap(L) + 1 ELSE 6)
                 /\ r.markdown[n + 1] = 32
            ELSE n = 0

\* C12 witness: the level 6 comes from the named style and gives "###### "
C12_Witness ==
    /\ is_some(ret)
    /\ unwrap(ret).paragraph.style = Some([style_id |-> Some("Heading1"),
              outline_lvl |-> None, numbering |-> None,
              page_break_before |-> None, style |-> None])
    /\ doc.styles["Heading1"].outline_lvl = Some(MaxOutlineLvl)
    /\ unwrap(ret).markdown = <<35, 35, 35, 35, 35, 35, 32, 72, 105>>

---------------------------------------------------------------------------
(* Inline markup: C13                                                      *)

\* every combination of the four flags
AllFlags ==
    {Style(b, i, u, k, None) : b \in BOOLEAN, i \in BOOLEAN, u \in BOOLEAN, k \in BOOLEAN}

\* one paragraph without heading and numbering, holding the block "Hi"
InitMarkup ==
    /\ \E st \in {None} \cup {Some(f) : f \in AllFlags},
          pst \in {None} \cup {Some(f) : f \in AllFlags} :
          doc = Document(None,
                    <<ParagraphItem(
                        [style |-> IF pst = None THEN None
                                   ELSE Some([style_id |-> None, outline_lvl |-> None,
                                              numbering |-> None,
                                              page_break_before |-> None,
                                              style |-> pst]),
                         blocks |-> <<TextBlock_new(Text_Hi, st, "Text")>>])>>,
                    HashMap_new, ParagraphDefinitions)
    /\ Quiet

SpecMarkup == InitMarkup /\ [][NextParagraph]_vars

\* the opening markers of the flags, the outermost first
Opening(f) ==
    (IF f.strike THEN <<126, 126>> ELSE << >>)
    \o (IF f.underline THEN <<95, 95>> ELSE << >>)
    \o (IF f.italics THEN <<42>> ELSE << >>)
    \o (IF f.bold THEN <<42, 42>> ELSE << >>)

Reversed(t) == [i \in 1..Len(t) |-> t[Len(t) + 1 - i]]

\* C13: for every combination of the four flags in effect the block is
\* rendered with ** innermost, then *, then __, then ~~ outermost around its
\* text, and a flag that is off adds no marker.
C13_MarkupNesting ==
    (is_some(ret) /\ ~unwrap(ret).panicked) =>
        LET r == unwrap(ret)
            block == r.paragraph.blocks[1]
            f == TextBlock_style(block, r.style)
        IN  r.markdown = Opening(f) \o block.text \o Reversed(Opening(f))

\* C13 witness: all four flags on the block, no paragraph style:
\* "~~__***Hi***__~~"
C13_Witness ==
    /\ is_some(ret)
    /\ unwrap(ret).paragraph =
          [style |-> None,
           blocks |-> <<TextBlock_new(Text_Hi, Some(Style(TRUE, TRUE, TRUE, TRUE, None)),
                                      "Text")>>]
    /\ unwrap(ret).markdown =
          <<126, 126, 95, 95, 42, 42, 42, 72, 105, 42, 42, 42, 95, 95, 126, 126>>

---------------------------------------------------------------------------
(* Letter and roman markers: C14                                           *)

\* the paragraphs of the one list of a document
MaxLetters == 192

LetterFormats == {"upperLetter", "lowerLetter", "upperRoman", "lowerRoman"}

\* a document of MaxLetters paragraphs, all of list 1, which has one of the
\* four letter formats
InitLetters ==
    /\ \E format \in LetterFormats :
          doc = Document(None, [k \in 1..MaxLetters |-> ParagraphItem(P_list1)],
                         HashMap_new,
                         (1 :> Definition(1, Some(format), None)) @@
                         (2 :> Definition(2, Some("bullet"), Some(<<45>>))))
    /\ Quiet

SpecLetters == InitLetters /\ [][Next]_vars

\* the code of the letter the format starts from: 'A', 'a', 'I', 'i'
BaseLetter ==
    CASE doc.numberings[1].format = Some("upperLetter") -> 65
      [] doc.numberings[1].format = Some("lowerLetter") -> 97
      [] doc.numberings[1].format = Some("upperRoman")  -> 73
      [] doc.numberings[1].format = Some("lowerRoman")  -> 105

\* C14: for the formats upper-letter, lower-letter, upper-roman and
\* lower-roman the paragraph rendered at counter value n gets the single
\* character of code 'A'+n, 'a'+n, 'I'+n or 'i'+n followed by '.', for
\* every counter value n reached in a pass.
C14_LetterMarkers ==
    /\ pc # "panicked"
    /\ (pc = "loop" /\ index >= 1) =>
          EndsWith(markdown,
                   <<BaseLetter + (index - 1), 46, 32>> \o Text_a \o <<10>>
                   \o Separator(index))

\* the same for the counter values whose sum with the base letter fits 8 bits
C14_LetterMarkersUpTo255 ==
    (pc = "loop" /\ index >= 1 /\ BaseLetter + (index - 1) <= 255) =>
        EndsWith(markdown,
                 <<BaseLetter + (index - 1), 46, 32>> \o Text_a \o <<10>>
                 \o Separator(index))

---------------------------------------------------------------------------
(* to_markdown(export_images) with the export of the images: C15           *)

\* the steps of save_image_to_file that can fail, each ending the call with
\* Err through `?`
Failures == {"none", "current_dir", "create_dir_all", "File::create", "write_all"}

\* save_image_to_file: the result, and whether the file was created
save_image_to_file(path, image_data, failure) ==
    [ok      |-> failure = "none",
     created |-> failure \in {"none", "write_all"},
     path    |-> path,
     data    |-> IF failure = "none" THEN image_data ELSE << >>]

Image1 == <<105, 49>>     \* "i1"

Image2 == <<105, 50>>     \* "i2"

Images ==
    {HashMap_new, Image1 :> <<137, 80>>, (Image1 :> <<137, 80>>) @@ (Image2 :> <<255>>)}

\* at most this many content items in a document whose images are exported
MaxExportItems == 1

ExportContents == {ParagraphItem(P_heading), ParagraphItem(P_list1), TableItem(T_lists)}

InitExport ==
    /\ \E title \in {None, Some(Text_Doc)}, content \in SeqsUpTo(ExportContents, MaxExportItems),
          images \in Images :
          doc = [Document(title, content, HashMap_new, Definitions)
                    EXCEPT !.images = images]
    /\ Quiet

\* the export of the pass in progress
export == exports[Len(exports)]

\* to_markdown(export_images) is called
ToMarkdownExportBegin ==
    /\ pc = "idle"
    /\ Len(outputs) < MaxPasses
    /\ \E export_images \in BOOLEAN :
          exports' = Append(exports, [export_images |-> export_images,
                                      pending |-> {}, attempted |-> {},
                                      files |-> {}, reported |-> {}])
    /\ markdown' = title_heading(doc.title)
    /\ numberings' = to_markdown_numberings
    /\ index' = 0
    /\ pc' = "loop"
    /\ UNCHANGED <<doc, outputs, ret, source, built, overflow_checks, call>>

\* line 736-737: the loop over the content is over and export_images is set
ToMarkdownExport ==
    /\ pc = "loop"
    /\ index = Len(doc.content)
    /\ export.export_images
    /\ exports' = [exports EXCEPT ![Len(exports)].pending = DOMAIN doc.images]
    /\ pc' = "export"
    /\ UNCHANGED <<doc, index, numberings, markdown, outputs, ret, source, built,
                   overflow_checks, call>>

\* the effect of one save_image_to_file result on the export: Ok(_) => (),
\* Err(err) => eprintln!
Saved(image, saved, pending) ==
    exports' = [exports EXCEPT
                  ![Len(exports)].pending = pending,
                  ![Len(exports)].attempted = @ \cup {image},
                  ![Len(exports)].files =
                      IF saved.created THEN @ \cup {<<saved.path, saved.data>>} ELSE @,
                  ![Len(exports)].reported = IF saved.ok THEN @ ELSE @ \cup {image}]

\* the mutation: the first failed write ends the export
ExportImage_until_error ==
    /\ pc = "export"
    /\ \E image \in export.pending, failure \in Failures :
          Saved(image, save_image_to_file(image, doc.images[image], failure),
                IF failure = "none" THEN export.pending \ {image} ELSE {})
    /\ UNCHANGED <<doc, pc, index, numberings, markdown, outputs, ret, source, built,
                   overflow_checks, call>>

\* lines 737-742: one iteration of the loop over self.images, in the order
\* of the HashMap
ExportImage ==
    /\ pc = "export"
    /\ \E image \in export.pending, failure \in Failures :
          Saved(image, save_image_to_file(image, doc.images[image], failure),
                export.pending \ {image})
    /\ UNCHANGED <<doc, pc, index, numberings, markdown, outputs, ret, source, built,
                   overflow_checks, call>>

\* line 745: the text is returned, after the export when there was one
ToMarkdownExportReturn ==
    /\ \/ pc = "loop" /\ index = Len(doc.content) /\ ~export.export_images
       \/ pc = "export" /\ export.pending = {}
    /\ outputs' = Append(outputs, markdown)
    /\ pc' = "idle"
    /\ UNCHANGED <<doc, index, numberings, markdown, ret, source, built,
                   overflow_checks, exports, call>>

NextExport ==
    \/ ToMarkdownExportBegin
    \/ ToMarkdownContent
    \/ ToMarkdownExport
    \/ ExportImage
    \/ ToMarkdownExportReturn

SpecExport == InitExport /\ [][NextExport]_vars

\* the images whose file holds all their data
Written(e) == {image \in DOMAIN doc.images : <<image, doc.images[image]>> \in e.files}

\* C15: with export requested every image of the document is attempted,
\* whether earlier writes failed or not, the failed ones are the reported
\* ones, and the pass still returns; the text returned is the same for
\* to_markdown(true) and to_markdown(false) on one document, whatever the
\* writes did.
C15_ExportNotFatal ==
    /\ pc # "panicked"
    /\ \A i \in 1..Len(outputs) :
          /\ outputs[i] = outputs[1]
          /\ IF exports[i].export_images
             THEN /\ exports[i].attempted = DOMAIN doc.images
                  /\ exports[i].reported = DOMAIN doc.images \ Written(exports[i])
             ELSE exports[i].attempted = {} /\ exports[i].files = {}

\* C15 witness: a pass without export, then a pass with export in which one
\* of two writes failed and the other image was written
C15_Witness ==
    /\ Len(outputs) = 2
    /\ outputs[1] # << >>
    /\ ~exports[1].export_images
    /\ exports[2].export_images
    /\ exports[2].attempted = {Image1, Image2}
    /\ exports[2].reported = {Image1}
    /\ Written(exports[2]) = {Image2}

---------------------------------------------------------------------------
(* Missing optional data: C16                                              *)

\* a paragraph of list 3, which the numbering table does not define
P_list3 == Paragraph(OnlyStyle(None, Some(Numbering(Some(3), None))), Text_a, None)

\* a paragraph whose style id is not in the style registry
P_unknown_style ==
    Paragraph(Some([style_id |-> Some("Unknown"), outline_lvl |-> None,
                    numbering |-> None, page_break_before |-> None, style |-> None]),
              Text_a, None)

\* list 1 has no format (Definitions), list 3 no definition
MissingContents ==
    {ParagraphItem(P_list1), ParagraphItem(P_unknown_style), ParagraphItem(P_list3),
     ParagraphItem(Plain(Text_a)), TableItem(<< <<TRUE, <<Cell(Text_a), <<P_list3>> >> >> >>)}

InitMissing ==
    /\ \E content \in SeqsUpTo(MissingContents, MaxItems) :
          doc = Document(None, content, HashMap_new, Definitions)
    /\ Quiet

SpecMissing == InitMissing /\ [][Next]_vars

\* C16: to_markdown raises no error for missing optional data: not for a
\* style id that is not registered, not for a list without format, not for
\* a list id without entry in the numbering table.
C16_NoErrorForMissingData == pc # "panicked"

\* a panic of the pass is always the lookup of an undefined list id
C16_OnlyUndefinedListPanics ==
    pc = "panicked" =>
        \E i \in 1..Len(ItemParagraphs(doc.content[index + 1])) :
            LET st == effective_style(ItemParagraphs(doc.content[index + 1])[i],
                                      doc.styles)
            IN  has_list_id(st) /\ list_id(st) \notin DOMAIN doc.numberings

---------------------------------------------------------------------------
(* The counters of a pass: C17                                             *)

ListIds(pars) ==
    {list_id(effective_style(pars[i], doc.styles)) :
        i \in {j \in 1..Len(pars) : has_list_id(effective_style(pars[j], doc.styles))}}

\* the marker that shows the counter value n: the number n+1 or the letter
\* n places after the base letter; a bullet shows no counter
ShowsCounter(format, n, marker) ==
    CASE format \in {None, Some("decimal"), Some("ordinal"), Some("customFormat")}
                                     -> marker = Decimal(n + 1) \o <<46>>
      [] format = Some("upperLetter") -> marker = <<65 + n, 46>>
      [] format = Some("lowerLetter") -> marker = <<97 + n, 46>>
      [] format = Some("upperRoman")  -> marker = <<73 + n, 46>>
      [] format = Some("lowerRoman")  -> marker = <<105 + n, 46>>
      [] OTHER                        -> TRUE

\* C17: within one pass the counter of a list id L is, after every item,
\* the number of paragraphs of L rendered so far, body paragraphs and table
\* cell paragraphs alike, whatever their indent level or format; ids without
\* paragraph so far have no counter, so the k-th paragraph of L is rendered
\* with counter value k-1 and paragraphs of other lists or without list
\* leave the counter of L alone.
C17_CounterPerListId ==
    (pc = "loop") =>
        LET done == ParagraphsBefore(index + 1)
        IN  /\ DOMAIN numberings = ListIds(done)
            /\ \A L \in DOMAIN numberings : numberings[L] = OfList(L, done)
            /\ (index >= 1 /\ doc.content[index].kind = "Paragraph"
                 /\ has_list_id(effective_style(doc.content[index].paragraph,
                                                 doc.styles))) =>
                  LET p == doc.content[index].paragraph
                      st == effective_style(p, doc.styles)
                      L == list_id(st)
                  IN  \E marker \in {<<c, 46>> : c \in 48..122} \cup {<<32>>, <<45>>} :
                        /\ EndsWith(markdown,
                                    indent_prefix(st) \o marker \o <<32>>
                                    \o blocks_to_markdown(p.blocks, st) \o <<10>>
                                    \o Separator(index))
                        /\ ShowsCounter(doc.numberings[L].format,
                                        OfList(L, ParagraphsBefore(index)), marker)

\* C17 witness: list 1 is lettered; a nested paragraph of list 1, the table
\* with a paragraph of list 1 and one of list 2 in its cells, then a paragraph
\* of list 1 rendered as "C. a"
C17_Witness ==
    /\ pc = "loop" /\ index = 3
    /\ doc.numberings[1].format = Some("upperLetter")
    /\ doc.content = <<ParagraphItem(P_list1_nested), TableItem(T_lists),
                       ParagraphItem(P_list1)>>
    /\ numberings = (1 :> 3) @@ (2 :> 1)
    /\ EndsWith(markdown, <<67, 46, 32, 97, 10>>)

---------------------------------------------------------------------------
(* BlockStyle::combine_with called directly: C18                           *)

\* MarkdownDocument::new()
MarkdownDocument_new == Document(None, << >>, HashMap_new, HashMap_new)

\* no document is rendered: a function is called on its own
Direct == Unused /\ doc = MarkdownDocument_new

BlockStyles == {[f EXCEPT !.size = size] : f \in AllFlags, size \in {None, Some(19), Some(24)}}

InitCombine ==
    /\ Direct
    /\ \E self \in BlockStyles, other \in BlockStyles :
          call = [self |-> self, other |-> other, result |-> None]

\* self.combine_with(other); the result is self after the call
CombineWith ==
    /\ call.result = None
    /\ call' = [call EXCEPT !.result = Some(BlockStyle_combine_with(call.self, call.other))]
    /\ UNCHANGED <<doc, pc, index, numberings, markdown, outputs, ret, source, built,
                   overflow_checks, exports>>

NextCombine == CombineWith

SpecCombine == InitCombine /\ [][NextCombine]_vars

\* C18: after self.combine_with(other) the four flags of self are other's,
\* whatever self held, and self.size is other's size when other has one and
\* is unchanged when other has none.
C18_CombineWithOverwritesFlags ==
    is_some(call.result) =>
        LET after == unwrap(call.result)
        IN  /\ after.bold = call.other.bold
            /\ after.italics = call.other.italics
            /\ after.underline = call.other.underline
            /\ after.strike = call.other.strike
            /\ is_some(call.other.size) => after.size = call.other.size
            /\ call.other.size = None => after.size = call.self.size

\* C18 witness: self is bold and struck with size 24, other is italic
\* without size: the result is italic only, with size 24
C18_Witness ==
    /\ call.self = Style(TRUE, FALSE, FALSE, TRUE, Some(24))
    /\ call.other = Style(FALSE, TRUE, FALSE, FALSE, None)
    /\ call.result = Some(Style(FALSE, TRUE, FALSE, FALSE, Some(24)))

---------------------------------------------------------------------------
(* max_lengths_per_column called directly: C19                             *)

\* rows of cell texts: none, "A", "A" "BB", "X" "YYYY", "-" "" "A", and a
\* cell of two bytes in one character
TextRows ==
    {<< >>,
     <<<<65>>>>,
     <<<<65>>, <<66, 66>>>>,
     <<<<88>>, <<89, 89, 89, 89>>>>,
     <<<<45>>, << >>, <<65>>>>,
     <<<<233>>>>}

TextTables == SeqsUpTo({<<h, r>> : h \in BOOLEAN, r \in TextRows}, MaxRows)

InitWidths ==
    /\ Direct
    /\ \E table \in TextTables, min_width \in {0, 3} :
          call = [table |-> table, min_width |-> min_width, result |-> None]

MaxLengthsPerColumn ==
    /\ call.result = None
    /\ call' = [call EXCEPT
                  !.result = Some(max_lengths_per_column(call.table, call.min_width))]
    /\ UNCHANGED <<doc, pc, index, numberings, markdown, outputs, ret, source, built,
                   overflow_checks, exports>>

NextWidths == MaxLengthsPerColumn

SpecWidths == InitWidths /\ [][NextWidths]_vars

\* the rows of the table in the call that have a j-th cell
RowsWithCell(j) == {k \in 1..Len(call.table) : Len(call.table[k][2]) >= j}

\* the lengths (String::len, in bytes) of the j-th cells
CellLengths(j) == {str_len(call.table[k][2][j]) : k \in RowsWithCell(j)}

LongestRow == Max({0} \cup {Len(call.table[k][2]) : k \in 1..Len(call.table)})

\* C19 as stated: the result has one entry per column of the longest row,
\* the j-th being the maximum length of the j-th cells of the rows that have
\* one; an empty table gives an empty vector.
C19_MaxCellLengthPerColumn ==
    is_some(call.result) =>
        LET widths == unwrap(call.result)
        IN  /\ Len(widths) = LongestRow
            /\ \A j \in 1..Len(widths) : widths[j] = Max(CellLengths(j))
            /\ call.table = << >> => widths = << >>

\* C19 with the minimum width: the j-th entry is the largest of the lengths
\* of the j-th cells and of its start value, which is min_width for the
\* columns of the first row and 0 for the columns later rows add.
C19_MaxOfCellsAndMinWidth ==
    is_some(call.result) =>
        LET widths == unwrap(call.result)
            start(j) == IF j <= Len(call.table[1][2]) THEN call.min_width ELSE 0
        IN  /\ Len(widths) = LongestRow
            /\ \A j \in 1..Len(widths) : widths[j] = Max({start(j)} \cup CellLengths(j))
            /\ call.table = << >> => widths = << >>

\* C19 witness: "A" over "X" "YYYY" with min_width 3: the first column is
\* held at 3, the second, added by the second row, is 4
C19_Witness ==
    /\ call.table = << <<TRUE, <<<<65>>>> >>, <<FALSE, <<<<88>>, <<89, 89, 89, 89>>>> >> >>
    /\ call.min_width = 3
    /\ call.result = Some(<<3, 4>>)

---------------------------------------------------------------------------
(* table_row_to_markdown and pad_left called directly: C20                 *)

\* the widths drawn are 0..MaxWidth, for up to MaxColumns columns
MaxWidth == 4

MaxColumns == 2

\* "", "A", "BB", "YYYY" and a text of two bytes in one character
PadTexts == {<< >>, <<65>>, <<66, 66>>, <<89, 89, 89, 89>>, <<233>>}

InitRow ==
    /\ Direct
    /\ \/ \E column_lengths \in SeqsUpTo(0..MaxWidth, MaxColumns), row \in TextRows :
             call = [fn |-> "table_row_to_markdown", column_lengths |-> column_lengths,
                     row |-> row, result |-> None]
       \/ \E s \in PadTexts, width \in 0..MaxWidth :
             call = [fn |-> "pad_left", s |-> s, width |-> width, result |-> None]

TableRowToMarkdown ==
    /\ call.fn = "table_row_to_markdown"
    /\ call.result = None
    /\ call' = [call EXCEPT
                  !.result = Some(table_row_to_markdown(call.column_lengths, call.row))]
    /\ UNCHANGED <<doc, pc, index, numberings, markdown, outputs, ret, source, built,
                   overflow_checks, exports>>

PadLeft ==
    /\ call.fn = "pad_left"
    /\ call.result = None
    /\ call' = [call EXCEPT !.result = Some(pad_left(call.s, call.width))]
    /\ UNCHANGED <<doc, pc, index, numberings, markdown, outputs, ret, source, built,
                   overflow_checks, exports>>

NextRow == TableRowToMarkdown \/ PadLeft

SpecRow == InitRow /\ [][NextRow]_vars

Spaces(n) == [i \in 1..n |-> 32]

\* "| " text, spaces up to the width, " " for the columns from j on, then "|\n";
\* lengths are String::len, in bytes
RECURSIVE CellsFrom(_, _, _)
CellsFrom(widths, row, j) ==
    IF j > Len(widths) THEN <<124, 10>>
    ELSE LET text == IF j <= Len(row) THEN row[j] ELSE << >>
         IN  <<124, 32>> \o text \o Spaces(widths[j] - str_len(text)) \o <<32>>
             \o CellsFrom(widths, row, j + 1)

---------------------------------------------------------------------------
(* Indentation of list paragraphs: C21                                     *)

\* the indent levels drawn are 0..MaxIndent
MaxIndent == 2

\* a paragraph of list 1 at an indent level, or without one
P_indent(level) ==
    Paragraph(OnlyStyle(None, Some(Numbering(Some(1), level))), Text_a, None)

\* a heading of outline level 1 that is also a paragraph of list 1, at level 1
P_heading_indent ==
    Paragraph(OnlyStyle(Some(1), Some(Numbering(Some(1), Some(1)))), Text_a, None)

IndentContents ==
    {ParagraphItem(P_indent(level)) : level \in {None} \cup {Some(k) : k \in 0..MaxIndent}}
    \cup {ParagraphItem(P_heading_indent)}

InitIndent ==
    /\ \E format \in {None, Some("upperLetter"), Some("bullet")},
          content \in SeqsUpTo(IndentContents, MaxItems) :
          doc = Document(None, content, HashMap_new,
                         (1 :> Definition(1, format, None)) @@
                         (2 :> Definition(2, Some("bullet"), Some(<<45>>))))
    /\ Quiet

SpecIndent == InitIndent /\ [][Next]_vars

\* the marker of the n-th (0-based) paragraph of a list of a format, which
\* does not depend on any indent level
MarkerAt(format, n) ==
    CASE format = None                -> Decimal(n + 1) \o <<46>>
      [] format = Some("upperLetter") -> <<65 + n, 46>>
      [] format = Some("bullet")      -> <<45>>

\* C21: a paragraph with indent level k > 0 has exactly 4*k spaces directly
\* before its list marker (after the heading prefix, if any), a paragraph
\* with level 0 or no level has none; marker and counter are those of a
\* paragraph without indent level.
C21_IndentBeforeMarker ==
    (pc = "loop" /\ index >= 1) =>
        LET p == doc.content[index].paragraph
            st == effective_style(p, doc.styles)
            level == unwrap(st.numbering).indent_level
            k == IF is_some(level) /\ unwrap(level) > 0 THEN unwrap(level) ELSE 0
            text == heading_prefix(st) \o Spaces(4 * k)
                    \o MarkerAt(doc.numberings[1].format, index - 1) \o <<32>>
                    \o Text_a \o <<10>> \o Separator(index)
        IN  /\ EndsWith(markdown, text)
            /\ AtLineStart(SubSeq(markdown, 1, Len(markdown) - Len(text)))
            /\ numberings = (1 :> index)

\* C21 witness: levels 2, none and 1 with a heading, lettered:
\* "        A. a", "B. a", "##     C. a"
C21_Witness ==
    /\ pc = "loop" /\ index = 3
    /\ doc.numberings[1].format = Some("upperLetter")
    /\ doc.content = <<ParagraphItem(P_indent(Some(2))), ParagraphItem(P_indent(None)),
                       ParagraphItem(P_heading_indent)>>
    /\ markdown = <<32, 32, 32, 32, 32, 32, 32, 32, 65, 46, 32, 97, 10, 10,
                    66, 46, 32, 97, 10, 10,
                    35, 35, 32, 32, 32, 32, 32, 67, 46, 32, 97, 10>>

---------------------------------------------------------------------------
(* Links and bookmarks in from_paragraph: C22                              *)

\* text runs, links and bookmark starts, with and without the parts the
\* block needs
LinkContents ==
    {Run(None, <<Text(Text_Hello)>>),
     Run(None, <<Text(Text_World)>>),
     Run(Some(Bold_rPr), <<Text(Text_World)>>),
     \* a link whose relationship id has a target
     Link(None, Some("rId2"), <<Text(<<120>>)>>),
     \* a link to an anchor of the document
     Link(Some(<<98>>), None, <<Text(<<120>>)>>),
     \* a link whose relationship id is not in document_rels
     Link(None, Some("rId9"), <<Text(<<120>>)>>),
     \* a link whose first content is not a text
     Link(None, Some("rId2"), <<Other, Text(<<120>>)>>),
     \* a link without content
     Link(Some(<<98>>), None, << >>),
     BookmarkStart(Some(<<98>>)),
     BookmarkStart(None)}

InitLinks ==
    /\ \E property \in ParagraphProperties,
          content \in SeqsUpTo(LinkContents, MaxRuns) :
          source = Some([paragraph |-> [property |-> property, content |-> content],
                         docx |-> Docx])
    /\ doc = Document(None, << >>, HashMap_new, HashMap_new)
    /\ pc = "idle" /\ index = 0 /\ numberings = HashMap_new
    /\ markdown = << >> /\ outputs = << >> /\ ret = None /\ built = None
    /\ overflow_checks \in BOOLEAN /\ exports = << >> /\ call = None

SpecLinks == InitLinks /\ [][NextCoalesce]_vars

IsAnchor(c) == c.kind \in {"Link", "BookmarkStart"}

IsAnchorBlock(b) == b.text_type \in {"Link", "BookmarkLink"}

\* the block a link or bookmark start yields, if any
AnchorBlock(c, docx) ==
    IF c.kind = "Link" THEN link_block(c, docx) ELSE bookmark_block(c)

\* the members of a sequence that satisfy a test, in order
RECURSIVE AnchorBlocksOf(_)
AnchorBlocksOf(blocks) ==
    IF blocks = << >> THEN << >>
    ELSE (IF IsAnchorBlock(Head(blocks)) THEN <<Head(blocks)>> ELSE << >>)
         \o AnchorBlocksOf(Tail(blocks))

RECURSIVE AnchorsOf(_)
AnchorsOf(content) ==
    IF content = << >> THEN << >>
    ELSE (IF IsAnchor(Head(content)) THEN <<Head(content)>> ELSE << >>)
         \o AnchorsOf(Tail(content))

RECURSIVE YieldedBlocks(_, _)
YieldedBlocks(anchors, docx) ==
    IF anchors = << >> THEN << >>
    ELSE AnchorBlock(Head(anchors), docx) \o YieldedBlocks(Tail(anchors), docx)

\* the blocks hold: a Text block ending with the first run's text, then a
\* Link or BookmarkLink block, then a Text block starting with the third
\* run's text
SeparatedByAnchor(b, first, third) ==
    \E m \in 1..(Len(b) - 2) :
        /\ b[m].text_type = "Text"
        /\ b[m].style = run_block_style(first.property)
        /\ EndsWith(b[m].text, RunText(first.content))
        /\ IsAnchorBlock(b[m + 1])
        /\ b[m + 2].text_type = "Text"
        /\ b[m + 2].style = run_block_style(third.property)
        /\ StartsWith(b[m + 2].text, RunText(third.content))

\* C22 (as claimed): every hyperlink and every bookmark start of the
\* paragraph is a block of its own, no text is appended to it, and text
\* runs on both sides of a link or bookmark are two separate Text blocks.
C22_EveryAnchorOwnBlock ==
    is_some(built) =>
        LET c == unwrap(source).paragraph.content
            b == unwrap(built).blocks
        IN  /\ Len(AnchorBlocksOf(b)) = Len(AnchorsOf(c))
            /\ \A i \in 1..(Len(c) - 2) :
                  (IsTextRun(c[i]) /\ IsAnchor(c[i + 1]) /\ IsTextRun(c[i + 2]))
                  => SeparatedByAnchor(b, c[i], c[i + 2])

\* C22 (amended): a link whose first content is a text and whose target
\* resolves, and a bookmark start with a name, is a block of its own with
\* exactly its own text; text runs on both sides of it are two separate
\* Text blocks. Other links and bookmark starts yield no block.
C22_YieldedAnchorOwnBlock ==
    is_some(built) =>
        LET c == unwrap(source).paragraph.content
            b == unwrap(built).blocks
            docx == unwrap(source).docx
        IN  /\ AnchorBlocksOf(b) = YieldedBlocks(AnchorsOf(c), docx)
            /\ \A i \in 1..(Len(c) - 2) :
                  ( /\ IsTextRun(c[i]) /\ IsAnchor(c[i + 1]) /\ IsTextRun(c[i + 2])
                    /\ is_some(AnchorBlock(c[i + 1], docx)) )
                  => /\ SeparatedByAnchor(b, c[i], c[i + 2])
                     /\ \E m \in 1..Len(b) : Some(b[m]) = AnchorBlock(c[i + 1], docx)

\* C22 witness: "Hello ", a resolved link, "World", all without inline
\* style, give three blocks
C22_Witness ==
    /\ is_some(built)
    /\ unwrap(source).paragraph.content =
          <<Run(None, <<Text(Text_Hello)>>),
            Link(None, Some("rId2"), <<Text(<<120>>)>>),
            Run(None, <<Text(Text_World)>>)>>
    /\ unwrap(built).blocks =
          <<TextBlock_new(Text_Hello, None, "Text"),
            TextBlock_new(<<91, 120, 93, 40, 117, 41>>, None, "Link"),
            TextBlock_new(Text_World, None, "Text")>>

---------------------------------------------------------------------------
(* MarkdownDocument::from_file                                             *)

\* the variants of docx_rust's BodyContent
BodyParagraph(paragraph) == [kind |-> "Paragraph", paragraph |-> paragraph]

BodyTable(rows) == [kind |-> "Table", rows |-> rows]

Sdt == [kind |-> "Sdt"]

SectionProperty == [kind |-> "SectionProperty"]

BodyTableCell == [kind |-> "TableCell"]

\* a table row and the TableCell variant of TableRowContent
TableRow(table_header, cells) == [table_header |-> table_header, cells |-> cells]

TableCell(content) == [kind |-> "TableCell", content |-> content]

\* core.title, kept if not empty
from_file_title(core) ==
    IF is_some(core) /\ is_some(unwrap(core).title) /\ unwrap(unwrap(core).title) # << >>
    THEN unwrap(core).title ELSE None

\* one MarkdownNumbering per numbering that has an id and details
RECURSIVE from_file_numberings(_, _, _)
from_file_numberings(map, nums, details) ==
    IF nums = << >> THEN map
    ELSE LET n == Head(nums)
             next == IF is_some(n.num_id) /\ contains_key(details, unwrap(n.num_id))
                     THEN insert(map, unwrap(n.num_id),
                                 Definition(unwrap(n.num_id),
                                            details[unwrap(n.num_id)].number_format,
                                            details[unwrap(n.num_id)].level_text))
                     ELSE map
         IN  from_file_numberings(next, Tail(nums), details)

\* the media of type Image
RECURSIVE from_file_images(_, _)
from_file_images(map, media) ==
    IF media = << >> THEN map
    ELSE LET m == Head(media)
         IN  from_file_images(IF m.type = "Image" THEN insert(map, m.id, m.data) ELSE map,
                              Tail(media))

\* the paragraph styles that have a paragraph property
RECURSIVE from_file_styles(_, _)
from_file_styles(map, styles) ==
    IF styles = << >> THEN map
    ELSE LET style == Head(styles)
             next == IF style.ty = Some("Paragraph") /\ is_some(style.paragraph)
                     THEN insert(map, style.style_id,
                                 ParagraphStyle_from(unwrap(style.paragraph)))
                     ELSE map
         IN  from_file_styles(next, Tail(styles))

\* the paragraphs of one cell
RECURSIVE convert_cell(_, _)
convert_cell(content, docx) ==
    IF content = << >> THEN << >>
    ELSE <<from_paragraph(Head(content), docx)>> \o convert_cell(Tail(content), docx)

\* the cells of one row: a TableCell with at least one paragraph
RECURSIVE converted_row(_, _)
converted_row(cells, docx) ==
    IF cells = << >> THEN << >>
    ELSE LET row_content == Head(cells)
             cell == IF row_content.kind = "TableCell"
                     THEN convert_cell(row_content.content, docx) ELSE << >>
         IN  (IF Len(cell) > 0 THEN <<cell>> ELSE << >>)
             \o converted_row(Tail(cells), docx)

is_table_header(row) ==
    /\ is_some(row.table_header)
    /\ unwrap(row.table_header) = Some("On")

RECURSIVE rows_columns(_, _)
rows_columns(rows, docx) ==
    IF rows = << >> THEN << >>
    ELSE <<  <<is_table_header(Head(rows)), converted_row(Head(rows).cells, docx)>>  >>
         \o rows_columns(Tail(rows), docx)

\* the mutation: a paragraph is pushed whatever it holds
from_file_content_keep_empty(content, body_content, docx) ==
    CASE body_content.kind = "Paragraph" ->
            Append(content, ParagraphItem(from_paragraph(body_content.paragraph, docx)))
      [] body_content.kind = "Table" ->
            Append(content, TableItem(rows_columns(body_content.rows, docx)))
      [] OTHER -> content

\* one turn of the loop over docx.document.body.content
from_file_content(content, body_content, docx) ==
    CASE body_content.kind = "Paragraph" ->
            LET markdown_paragraph == from_paragraph(body_content.paragraph, docx)
            IN  IF Len(markdown_paragraph.blocks) > 0
                THEN Append(content, ParagraphItem(markdown_paragraph))
                ELSE content
      [] body_content.kind = "Table" ->
            Append(content, TableItem(rows_columns(body_content.rows, docx)))
      [] OTHER -> content

\* at most this many items in the body of a source document
MaxBody == 3

P_source_text == [property |-> None, content |-> <<Run(None, <<Text(Text_Hello)>>)>>]

P_source_bookmark == [property |-> None, content |-> <<BookmarkStart(Some(<<98>>))>>]

\* a styled paragraph without content
P_source_empty ==
    [property |-> Some([style_id |-> Some("Heading1"), outline_lvl |-> Some(0),
                        page_break_before |-> None, numbering |-> None,
                        r_pr |-> << >>]),
     content |-> << >>]

\* a paragraph whose only content is a link that does not resolve
P_source_dead_link ==
    [property |-> None, content |-> <<Link(None, Some("rId9"), <<Text(<<120>>)>>)>>]

\* a header row: a cell of a text and an empty paragraph, a cell without
\* paragraphs, and a row content that is not a cell
T_source ==
    <<TableRow(Some(Some("On")),
               <<TableCell(<<P_source_text, P_source_empty>>), TableCell(<< >>), Other>>),
      TableRow(None, <<TableCell(<<P_source_dead_link>>)>>)>>

BodyContents ==
    {BodyParagraph(P_source_text), BodyParagraph(P_source_bookmark),
     BodyParagraph(P_source_empty), BodyParagraph(P_source_dead_link),
     BodyTable(T_source), BodyTable(<< >>),
     Sdt, SectionProperty, BodyTableCell}

\* the parts of a parsed file other than the body
DocxParts ==
    {[core |-> None, numbering |-> None, media |-> << >>, styles |-> << >>,
      document_rels |-> None],
     [core |-> Some([title |-> Some(Text_Doc)]),
      numbering |-> Some([numberings |-> <<[num_id |-> Some(1)], [num_id |-> None],
                                           [num_id |-> Some(7)]>>,
                          details |-> (1 :> [number_format |-> Some("upperLetter"),
                                             level_text |-> Some(<<37, 49, 46>>)])]),
      media |-> <<[id |-> Image1, type |-> "Image", data |-> <<137, 80>>],
                  [id |-> Image2, type |-> "Other", data |-> <<255>>]>>,
      styles |-> <<[ty |-> Some("Paragraph"), style_id |-> "Heading1",
                    paragraph |-> Some([style_id |-> None, outline_lvl |-> Some(0),
                                        page_break_before |-> None, numbering |-> None,
                                        r_pr |-> << >>])],
                   [ty |-> Some("Character"), style_id |-> "Strong", paragraph |-> None],
                   [ty |-> Some("Paragraph"), style_id |-> "Normal", paragraph |-> None]>>,
      document_rels |-> Docx.document_rels],
     [core |-> Some([title |-> Some(<< >>)]), numbering |-> None, media |-> << >>,
      styles |-> << >>, document_rels |-> Docx.document_rels]}

\* the file at the path: one that cannot be read or parsed, or a document
InitFromFile ==
    /\ \/ source = Some([file |-> None])
       \/ \E parts \in DocxParts, body \in SeqsUpTo(BodyContents, MaxBody) :
             source = Some([file |-> Some([core |-> parts.core,
                                           numbering |-> parts.numbering,
                                           media |-> parts.media,
                                           styles |-> parts.styles,
                                           document_rels |-> parts.document_rels,
                                           body |-> body])])
    /\ doc = MarkdownDocument_new
    /\ pc = "idle" /\ index = 0 /\ numberings = HashMap_new
    /\ markdown = << >> /\ outputs = << >> /\ ret = None /\ built = None
    /\ overflow_checks \in BOOLEAN /\ exports = << >> /\ call = None

\* from_file up to the loop over the body: the file is read and parsed
\* (a failure panics), title, numberings, images and styles are taken over
FromFileBegin ==
    /\ pc = "idle"
    /\ is_some(source)
    /\ IF unwrap(source).file = None
       THEN /\ pc' = "panicked"
            /\ UNCHANGED doc
       ELSE LET docx == unwrap(unwrap(source).file)
            IN  /\ pc' = "from_file"
                /\ doc' = [title |-> from_file_title(docx.core),
                           content |-> << >>,
                           styles |-> from_file_styles(HashMap_new, docx.styles),
                           numberings |->
                               IF is_some(docx.numbering)
                               THEN from_file_numberings(HashMap_new,
                                                         unwrap(docx.numbering).numberings,
                                                         unwrap(docx.numbering).details)
                               ELSE HashMap_new,
                           images |-> from_file_images(HashMap_new, docx.media)]
    /\ UNCHANGED <<index, numberings, markdown, outputs, ret, source, built,
                 overflow_checks, exports, call>>

\* one item of the body
FromFileContent ==
    /\ pc = "from_file"
    /\ index < Len(unwrap(unwrap(source).file).body)
    /\ index' = index + 1
    /\ doc' = [doc EXCEPT !.content =
                  from_file_content(@, unwrap(unwrap(source).file).body[index + 1],
                                    unwrap(unwrap(source).file))]
    /\ UNCHANGED <<pc, numberings, markdown, outputs, ret, source, built,
                 overflow_checks, exports, call>>

\* the document is returned
FromFileReturn ==
    /\ pc = "from_file"
    /\ index = Len(unwrap(unwrap(source).file).body)
    /\ pc' = "returned"
    /\ UNCHANGED <<doc, index, numberings, markdown, outputs, ret, source, built,
                 overflow_checks, exports, call>>

NextFromFile == FromFileBegin \/ FromFileContent \/ FromFileReturn

SpecFromFile == InitFromFile /\ [][NextFromFile]_vars

---------------------------------------------------------------------------
(* The content from_file builds: C23                                       *)

\* the body items that are kept: every table, and every paragraph that
\* yields a block
RECURSIVE KeptItems(_, _)
KeptItems(body, docx) ==
    IF body = << >> THEN << >>
    ELSE LET c == Head(body)
             kept == \/ c.kind = "Table"
                     \/ /\ c.kind = "Paragraph"
                        /\ Fragments(c.paragraph.content, docx) # << >>
         IN  (IF kept THEN <<c>> ELSE << >>) \o KeptItems(Tail(body), docx)

\* C23: after from_file no Paragraph item of the content has an empty block
\* sequence: a source paragraph that yields no block is dropped, and the
\* kept paragraphs and tables are in the order of the source body.
C23_NoEmptyParagraphItem ==
    pc \in {"from_file", "returned"} =>
        LET docx == unwrap(unwrap(source).file)
            kept == KeptItems(SubSeq(docx.body, 1, index), docx)
        IN  /\ \A i \in 1..Len(doc.content) :
                  doc.content[i].kind = "Paragraph"
                  => doc.content[i].paragraph.blocks # << >>
            /\ Len(doc.content) = Len(kept)
            /\ \A i \in 1..Len(kept) :
                  /\ doc.content[i].kind = kept[i].kind
                  /\ kept[i].kind = "Paragraph"
                     => doc.content[i].paragraph.blocks =
                            MergeStretches(Fragments(kept[i].paragraph.content, docx))
                  /\ kept[i].kind = "Table"
                     => Len(doc.content[i].table) = Len(kept[i].rows)

\* C23 witness: an empty paragraph, a table, a paragraph with a dead link
\* and a text paragraph give a table and a paragraph
C23_Witness ==
    /\ pc = "returned"
    /\ LET body == unwrap(unwrap(source).file).body
       IN  /\ Len(body) = 3
           /\ body[1] = BodyParagraph(P_source_empty)
           /\ body[2] = BodyTable(T_source)
           /\ body[3] = BodyParagraph(P_source_text)
    /\ Len(doc.content) = 2
    /\ doc.content[1].kind = "Table"
    /\ doc.content[2] = ParagraphItem([style |-> None,
                                       blocks |-> <<TextBlock_new(Text_Hello, None, "Text")>>])

---------------------------------------------------------------------------
(* The lines of a rendered table: C24                                      *)

\* rows with cells outside ASCII: "\u{e9}" is one character of two bytes
WideRows ==
    {<< >>,
     <<Cell(<<233>>)>>,
     <<Cell(<<97, 98>>)>>,
     <<Cell(<<65>>), Cell(<<233, 233>>)>>,
     <<Cell(<<66>>), Cell(<< >>), Cell(<<67>>)>>}

InitWide ==
    /\ \E table \in SeqsUpTo({<<h, r>> : h \in BOOLEAN, r \in WideRows}, MaxRows) :
          doc = Document(None, <<TableItem(table)>>, HashMap_new, Definitions)
    /\ Quiet

SpecWide == InitWide /\ [][Next]_vars

\* 1 plus the sum over the columns j.. of (width + 3), for widths in
\* characters
RECURSIVE LineLength(_)
LineLength(j) ==
    IF j > Columns THEN 1 ELSE ColumnWidth(j) + 3 + LineLength(j + 1)

\* the widest cell of column j in bytes
ColumnByteWidth(j) ==
    Max({0} \cup {str_len(SimpleCells[k][2][j]) :
                     k \in {r \in 1..Len(SimpleCells) : Len(SimpleCells[r][2]) >= j}})

RECURSIVE LineByteLength(_)
LineByteLength(j) ==
    IF j > Columns THEN 1 ELSE ColumnByteWidth(j) + 3 + LineByteLength(j + 1)

\* C24: every line of a rendered table (header, divider, each row) has the
\* same length in characters: 1 plus the sum over all columns of
\* (column width + 3), the newline not counted.
C24_LinesSameLength ==
    TableRendered =>
        \A i \in 1..Len(Lines(markdown)) : Len(Lines(markdown)[i]) = LineLength(1)

\* C24, in bytes: every line of a rendered table has the same number of
\* bytes, 1 plus the sum over all columns of (width in bytes + 3).
C24_LinesSameByteLength ==
    TableRendered =>
        \A i \in 1..Len(Lines(markdown)) :
            str_len(Lines(markdown)[i]) = LineByteLength(1)

---------------------------------------------------------------------------
(* min_width as a lower bound: C25                                         *)

\* C25: every width max_lengths_per_column(table, min_width) returns for a
\* table that is not empty is at least min_width, also when a later row has
\* more cells than the first.
C25_WidthsAtLeastMinWidth ==
    (is_some(call.result) /\ call.table # << >>) =>
        \A j \in 1..Len(unwrap(call.result)) : unwrap(call.result)[j] >= call.min_width

\* C25, for the columns of the first row only: their widths are at least
\* min_width.
C25_FirstRowWidthsAtLeastMinWidth ==
    (is_some(call.result) /\ call.table # << >>) =>
        \A j \in 1..Len(call.table[1][2]) : unwrap(call.result)[j] >= call.min_width

---------------------------------------------------------------------------
(* The 8-bit sum of the letter markers: C26                                *)

\* the counter of list 1 as the next paragraph finds it
CounterOfList == IF contains_key(numberings, 1) THEN numberings[1] ELSE 0

\* C26: for the letter and roman formats the marker code is the base
\* letter's code plus the counter truncated to 8 bits, and this sum is at
\* most 255 for every paragraph of a list that a pass renders.
C26_MarkerSumFitsU8 ==
    (pc = "loop" /\ index < Len(doc.content)) =>
        BaseLetter + (CounterOfList % 256) <= 255

\* C26, for lists of at most 151 paragraphs: the sum is at most 255 for
\* each of the four formats.
C26_MarkerSumFitsU8UpTo151 ==
    (pc = "loop" /\ index < Len(doc.content) /\ index < 151) =>
        BaseLetter + (CounterOfList % 256) <= 255

=============================================================================
